---- MODULE Spec2Model ----
(***************************************************************************)
(* The resumable four-phase batch pipeline of the voter-roll extractor:    *)
(*   process_constituency   (src/cloud/process_batch_headless.py)          *)
(*   batch_extract_thread   (src/voter_counter_app_fast_5.0.py)            *)
(* with the CheckpointManager of each variant.                             *)
(*                                                                         *)
(* A run is one orchestrator (a process, or the worker thread of the GUI)  *)
(* that walks   Phase 1 extract -> Phase 2 OCR -> Phase 3 repair ->        *)
(* Phase 4 export   and persists its progress in one checkpoint file.      *)
(* Wall-clock bookkeeping (start_time, elapsed_before_resume) and the      *)
(* descriptive keys (constituency_name, folder_path, total_pdfs) are not   *)
(* part of the state: no control decision reads them.                      *)
(*                                                                         *)
(* Specifications:                                                         *)
(*   Spec      runs of the two orchestrators on one folder                 *)
(*   SpecLoad  the same, starting on a checkpoint file load() rejects      *)
(*   SpecSave  the steps of one CheckpointManager.save                     *)
(*   SpecPool  one process pool and the loop that feeds and drains it      *)
(*   SpecUi    the web UI (src/cloud/voter_processor_ui.py)                *)
(*   SpecCli   invocations of the headless command and their exit status   *)
(*   SpecSeg   the page segmentation into numbered cells                   *)
(*   SpecAgg   group_entities_to_cards (src/docai_json_to_excel.py)        *)
(*   SpecParse the text parsers of a voter card                            *)
(*   SpecRepair   the enhancement ladder of the Phase 3 repair worker      *)
(*   SpecKill     kill_process of the web UI on any status file            *)
(*   SpecProgress the Phase 2 retrieval loop and its periodic save         *)
(*   SpecLive     Spec's runs under fair scheduling of the orchestrator    *)
(***************************************************************************)
EXTENDS Integers, Sequences, FiniteSets, TLC

\* ------------------------------------------------------------------ bounds
\* Number of PDFs in the constituency folder.
NumPdfs == 2
\* Largest number of non-blank cards one PDF holds.
MaxCards == 2
\* The periodic save intervals of the orchestrators (every 5 PDFs, every 200
\* or 500 OCR results, every 50 repairs), scaled down to one small interval
\* so that a save falls inside a phase.
SaveEvery == 2
\* Number of pool results whose retrieval may raise in the orchestrator
\* (future.result() raising, e.g. a broken worker process) in one behaviour.
MaxFaults == 1

\* batch_size of the GUI's Phase 2 (500 in the source: the number of OCR tasks
\* kept in flight), scaled down so that the card iterator is refilled.
batch_size == 2
\* Number of write() calls json.dump needs for one document.
Chunks == 3
\* Number of successive saves followed on one checkpoint path.
MaxSaves == 3

\* ------------------------------------------------------------------ inputs
Variants == {"headless", "gui"}
\* pdf_files = sorted(folder.glob("*.pdf")): a PDF is its position in that list.
Pdfs == 1..NumPdfs
\* Input folders: PDF p holds (p + shift) % (MaxCards + 1) non-blank cards;
\* `corrupt` names the PDF with a page that cannot be rendered (0: none).
Sources == [corrupt : 0..NumPdfs, shift : 0..MaxCards]

VARIABLES
    variant,         \* which orchestrator runs on this folder
    source,          \* the input folder (fixed for a behaviour)
    file,            \* the checkpoint path on disk
    data,            \* CheckpointManager.data of the running orchestrator
    run,             \* the orchestrator's position and local variables
    stop_requested,  \* VoterCounterApp.stop_requested
    excel,           \* the exported workbook
    faults,          \* pool results that raised so far
    stop_at,         \* the phase the run was in when Stop & Save was clicked
    sv,              \* the file system as seen by one CheckpointManager.save
    pool,            \* one ProcessPoolExecutor with the loop that drives it
    ui,              \* the web UI: status file, sessions, run_processor threads
    cli,             \* one invocation of the headless command line
    calc             \* one call of a segmenter, parser or aggregator function

vars == <<variant, source, file, data, run, stop_requested, excel, faults,
          stop_at, sv, pool, ui, cli, calc>>

\* ------------------------------------------------------------- dictionaries
\* A Python dict whose order matters is a sequence of <<key, ...>> entries in
\* insertion order; None is the empty mapping (both are falsy).
None == <<>>

Keys(d) == {d[i][1] : i \in 1..Len(d)}

\* d[k] = v: an existing key keeps its place, a new key goes last.
DictPut(d, e) ==
    IF e[1] \in Keys(d)
    THEN [i \in 1..Len(d) |-> IF d[i][1] = e[1] THEN e ELSE d[i]]
    ELSE Append(d, e)

DictGet(d, k) == d[CHOOSE i \in 1..Len(d) : d[i][1] = k]

\* str(global_idx), the JSON object key, and int(k), its inverse.
MaxIdx == NumPdfs * (MaxCards + 1)
StrKey(i) == ToString(i)
IntKey(s) == CHOOSE i \in 0..MaxIdx : ToString(i) = s

\* ------------------------------------------------------------------ workers
\* Number of card images extraction writes for PDF p.
CardsOf(src, p) == (p + src.shift) % (MaxCards + 1)

\* ExtractCards whose except branch returns the count and directory reached.
Mutant_ExtractCards(src, p) == <<p, CardsOf(src, p), p>>

\* extract_cards_from_pdf_sequential / extract_cards_from_single_pdf:
\* <<pdf_name, card_count, output_path>>; a failure anywhere gives
\* (0, None), whatever was written before it.  output_path is the PDF's own
\* directory (named p) or 0 for None.
ExtractCards(src, p) ==
    IF src.corrupt = p THEN <<p, 0, 0>> ELSE <<p, CardsOf(src, p), p>>

\* sorted(pdf_card_dir.glob("*.png"), key=int(stem)): the card files of a
\* directory in numeric order, each file <<pdf, local number>>.
CardFiles(src, p) == [k \in 1..CardsOf(src, p) |-> <<p, k>>]

\* What Tesseract and parse_voter_card make of one card image: a field map,
\* or None when the worker's try block raised.  Four kinds of card.
Complete(tag) == [voter_id |-> "id", name |-> tag, age |-> tag, gender |-> tag]
OcrData(path) ==
    LET kind == (2 * path[1] + path[2]) % 4 IN
    CASE kind = 0 -> Complete("ocr")
      [] kind = 1 -> [Complete("ocr") EXCEPT !.age = "", !.gender = ""]
      [] kind = 2 -> None
      [] OTHER    -> [Complete("ocr") EXCEPT !.name = "", !.gender = ""]

\* ocr_single_card(args): (global_idx, stem, data, pdf_name); on an exception
\* the headless worker labels the card str(global_idx), the GUI worker keeps
\* the file stem.
ocr_single_card(v, card) ==
    LET path == card[1]
        d    == OcrData(path)
    IN  <<card[2],
          IF d = None /\ v = "headless" THEN StrKey(card[2]) ELSE StrKey(path[2]),
          d,
          card[3]>>

\* What the enhanced (cropped, preprocessed) OCR reads from a card: None when
\* the image cannot be opened, else the fields it finds.
EnhRead(path) ==
    LET kind == (path[1] + path[2]) % 3 IN
    CASE kind = 0 -> [name |-> "enh", age |-> "enh", gender |-> "enh"]
      [] kind = 1 -> None
      [] OTHER    -> [name |-> "", age |-> "enh", gender |-> ""]

\* enhanced_ocr_name_age_gender(args) of the headless variant: only the
\* fields asked for are looked for.  fix = <<path, global_idx, need_name,
\* need_age, need_gender>>.
enhanced_ocr_name_age_gender(fix) ==
    LET r == EnhRead(fix[1]) IN
    <<fix[2],
      IF r = None THEN None
      ELSE [name   |-> IF fix[3] THEN r.name ELSE "",
            age    |-> IF fix[4] THEN r.age ELSE "",
            gender |-> IF fix[5] THEN r.gender ELSE ""]>>

\* enhanced_ocr_age_gender(args) of the GUI variant: age and gender only.
enhanced_ocr_age_gender(fix) ==
    LET r == EnhRead(fix[1]) IN
    <<fix[2],
      IF r = None THEN None ELSE [age |-> r.age, gender |-> r.gender]>>

\* ------------------------------------------------------- CheckpointManager
\* CheckpointManager.__init__: self.data.
DefaultData ==
    [phase |-> 0, extracted_pdfs |-> <<>>, ocr_results |-> <<>>,
     enhanced_ocr_done |-> <<>>, all_cards |-> <<>>]

\* The checkpoint path: absent ("none"), a JSON document ("json"), a file that
\* cannot be opened or decoded ("unreadable"), or text that is not JSON
\* ("badjson").  A JSON document without the key 'phase' has phase -1.
NoFile == [kind |-> "none", data |-> DefaultData]
JsonFile(d) == [kind |-> "json", data |-> d]
HasPhase(d) == d.phase >= 0

\* A JSON value that may be null.
JsonNull == [null |-> TRUE]
JsonOf(x) == [null |-> FALSE, v |-> x]

\* json_dump that leaves out the results without a field map.
Mutant_json_dump(d) ==
    [phase |-> d.phase,
     extracted_pdfs |->
        [i \in 1..Len(d.extracted_pdfs) |->
            LET e == d.extracted_pdfs[i] IN
            <<e[1], e[2], IF e[3] = 0 THEN JsonNull ELSE JsonOf(e[3])>>],
     ocr_results |->
        {<<k, d.ocr_results[k][1], JsonOf(d.ocr_results[k][2]),
           d.ocr_results[k][3]>> :
            k \in {j \in DOMAIN d.ocr_results : d.ocr_results[j][2] # None}},
     enhanced_ocr_done |-> d.enhanced_ocr_done,
     all_cards |-> d.all_cards]

\* json.dump(self.data, f): the document written.  A dict with insertion
\* order is an object whose members keep that order; ocr_results is an object
\* with one member per str(global_idx) key, its value the array
\* [s_no, field map or null, pdf_name]; a tuple is written as an array and
\* None as null.
json_dump(d) ==
    [phase |-> d.phase,
     extracted_pdfs |->
        [i \in 1..Len(d.extracted_pdfs) |->
            LET e == d.extracted_pdfs[i] IN
            <<e[1], e[2], IF e[3] = 0 THEN JsonNull ELSE JsonOf(e[3])>>],
     ocr_results |->
        {<<k, d.ocr_results[k][1],
           IF d.ocr_results[k][2] = None THEN JsonNull
           ELSE JsonOf(d.ocr_results[k][2]),
           d.ocr_results[k][3]>> : k \in DOMAIN d.ocr_results},
     enhanced_ocr_done |-> d.enhanced_ocr_done,
     all_cards |-> d.all_cards]

\* json.load(f): the value read back.  Object keys stay strings, arrays come
\* back as lists, null as None.
json_load(doc) ==
    [phase |-> doc.phase,
     extracted_pdfs |->
        [i \in 1..Len(doc.extracted_pdfs) |->
            LET e == doc.extracted_pdfs[i] IN
            <<e[1], e[2], IF e[3].null THEN 0 ELSE e[3].v>>],
     ocr_results |->
        [k \in {m[1] : m \in doc.ocr_results} |->
            LET m == CHOOSE x \in doc.ocr_results : x[1] = k IN
            <<m[2], IF m[3].null THEN None ELSE m[3].v, m[4]>>],
     enhanced_ocr_done |-> doc.enhanced_ocr_done,
     all_cards |-> doc.all_cards]

\* CheckpointManager.save: json.dump(self.data) to the temp path, then
\* temp_path.replace(checkpoint_path).  The checkpoint path is represented by
\* the value json.load reads from the document written.  The steps of the
\* write itself are the subject of SpecSave below.
Save(d) == JsonFile(json_load(json_dump(d)))

\* CheckpointManager.load of the headless variant: any exception gives False;
\* json.load's value is bound to self.data before 'phase' is read for the log
\* line, so a document without 'phase' fails the load and stays in self.data.
LoadHeadless(f) ==
    CASE f.kind = "json" /\ HasPhase(f.data) ->
             [ok |-> TRUE, died |-> FALSE, data |-> f.data, file |-> f]
      [] f.kind = "json" /\ ~HasPhase(f.data) ->
             [ok |-> FALSE, died |-> FALSE, data |-> f.data, file |-> f]
      [] OTHER ->
             [ok |-> FALSE, died |-> FALSE, data |-> DefaultData, file |-> f]

\* CheckpointManager.load of the GUI variant (v5.0): only JSONDecodeError is
\* caught (the file is deleted); an OSError of stat()/open() or the KeyError
\* of the log line leaves load() by exception and ends the thread.
LoadGui(f) ==
    CASE f.kind = "json" /\ HasPhase(f.data) ->
             [ok |-> TRUE, died |-> FALSE, data |-> f.data, file |-> f]
      [] f.kind = "json" /\ ~HasPhase(f.data) ->
             [ok |-> FALSE, died |-> TRUE, data |-> f.data, file |-> f]
      [] f.kind = "badjson" ->
             [ok |-> FALSE, died |-> FALSE, data |-> DefaultData, file |-> NoFile]
      [] f.kind = "unreadable" ->
             [ok |-> FALSE, died |-> TRUE, data |-> DefaultData, file |-> f]
      [] OTHER ->
             [ok |-> FALSE, died |-> FALSE, data |-> DefaultData, file |-> f]

\* CheckpointManager.add_extracted_pdf
add_extracted_pdf(d, e) == [d EXCEPT !.extracted_pdfs = DictPut(@, e)]

\* add_ocr_result keyed by arrival position instead of by the card's index.
Mutant_add_ocr_result(d, r) ==
    [d EXCEPT !.ocr_results =
        (StrKey(Cardinality(DOMAIN @)) :> <<r[2], r[3], r[4]>>) @@ @]

\* CheckpointManager.add_ocr_result, and the headless orchestrator's
\* checkpoint.data['ocr_results'][str(global_idx)] = (s_no, data, pdf_name).
\* r = <<global_idx, s_no, data, pdf_name>>.
add_ocr_result(d, r) ==
    [d EXCEPT !.ocr_results = (StrKey(r[1]) :> <<r[2], r[3], r[4]>>) @@ @]

\* add_enhanced_ocr that restarts the list with the index it is given.
Mutant_add_enhanced_ocr(d, idx) == [d EXCEPT !.enhanced_ocr_done = <<idx>>]

\* CheckpointManager.add_enhanced_ocr: append unless already listed.
add_enhanced_ocr(d, idx) ==
    IF \E i \in 1..Len(d.enhanced_ocr_done) : d.enhanced_ocr_done[i] = idx
    THEN d
    ELSE [d EXCEPT !.enhanced_ocr_done = Append(@, idx)]

\* CheckpointManager.get_ocr_results: {int(k): tuple(v)}.
get_ocr_results(d) ==
    [i \in {IntKey(k) : k \in DOMAIN d.ocr_results} |-> d.ocr_results[StrKey(i)]]

\* completed_indices = set(int(k) for k in ocr_data.keys())
CompletedIndices(d) == {IntKey(k) : k \in DOMAIN d.ocr_results}

\* ------------------------------------------------------------ orchestrator
\* The locals of process_constituency / batch_extract_thread.
\*   pc             where the orchestrator stands
\*   current_phase, pdf_card_info, all_cards, ocr_results   as in the code
\*   futures        tasks submitted to the pool and not yet retrieved
\*   todo           card_iter: cards not yet submitted
\*   completed      completed_pdfs / completed_ocr / fixed_count
\*   total          total_cards_to_ocr / len(cards_to_fix)
\*   resume_mode    whether the run started from a loaded checkpoint
\*   outcome        how the last run ended
\*   stopped_in     the phase whose stop check ended the run (0: none)
IdleRun(how) ==
    [pc |-> "idle", current_phase |-> 0, pdf_card_info |-> <<>>,
     all_cards |-> <<>>, ocr_results |-> <<>>, futures |-> {}, todo |-> <<>>,
     completed |-> 0, total |-> 0, resume_mode |-> FALSE, outcome |-> how,
     stopped_in |-> 0]

\* The card list: for every PDF of pdf_card_info, in the dict's order, that
\* has a directory, its card files in numeric order; global_idx counts up
\* from 0.  Entries are <<path, global_idx, pdf_name>>.
\* BuildCards with global_idx set back to 0 for every PDF.
RECURSIVE Mutant_BuildCards(_, _, _)
Mutant_BuildCards(src, info, acc) ==
    IF info = <<>> THEN acc
    ELSE LET e     == Head(info)
             files == IF e[3] # 0 THEN CardFiles(src, e[1]) ELSE <<>>
             more  == [k \in 1..Len(files) |-> <<files[k], k - 1, e[1]>>]
         IN  Mutant_BuildCards(src, Tail(info), acc \o more)

RECURSIVE BuildCards(_, _, _)
BuildCards(src, info, acc) ==
    IF info = <<>> THEN acc
    ELSE LET e     == Head(info)
             files == IF e[3] # 0 THEN CardFiles(src, e[1]) ELSE <<>>
             more  == [k \in 1..Len(files) |-> <<files[k], Len(acc) + k - 1, e[1]>>]
         IN  BuildCards(src, Tail(info), acc \o more)

\* SelectSeq with the index at hand: the entries of s that satisfy Test.
RECURSIVE Filter(_, _)
Filter(s, keep) ==
    IF s = <<>> THEN <<>>
    ELSE IF Head(s) \in keep THEN <<Head(s)>> \o Filter(Tail(s), keep)
    ELSE Filter(Tail(s), keep)

Range(s) == {s[i] : i \in 1..Len(s)}

\* The phase a position belongs to (0: no run, 4: export).
PhaseOfPc(pc) ==
    CASE pc \in {"at1", "p1loop", "p1check", "p1build"} -> 1
      [] pc \in {"at2", "p2loop", "p2end"} -> 2
      [] pc \in {"at3", "p3loop", "p3end"} -> 3
      [] pc \in {"at4", "finish"} -> 4
      [] OTHER -> 0

\* The orchestrator after the load: current_phase decides which phase block
\* is entered first; with current_phase >= 2 the else branch of Phase 2 takes
\* all_cards and ocr_results from the checkpoint.
Begin(phase, info, d, resume_mode) ==
    [IdleRun("none") EXCEPT
        !.resume_mode = resume_mode,
        !.pc = CASE phase < 1 -> "at1" [] phase = 1 -> "at2"
                 [] phase = 2 -> "at3" [] OTHER -> "at4",
        !.current_phase = phase,
        !.pdf_card_info = info,
        !.all_cards = IF phase >= 2 THEN d.all_cards ELSE <<>>,
        !.ocr_results = IF phase >= 2 THEN get_ocr_results(d) ELSE <<>>]

\* The run is over: the locals stay as they were.
Ended(r, how, phase) ==
    [r EXCEPT !.pc = "idle", !.outcome = how, !.stopped_in = phase,
              !.futures = {}, !.todo = <<>>]

env == <<variant, source, sv, pool, ui, cli, calc>>

\* process_constituency, lines 428-477: the load and the choice of the phase.
\* One folder is followed until its workbook is written.
PC_Start ==
    /\ variant = "headless" /\ run.pc = "idle" /\ ~excel.saved
    /\ LET L == LoadHeadless(file) IN
         /\ data' = L.data
         /\ file' = L.file
         /\ run' = IF L.ok
                   THEN Begin(L.data.phase, L.data.extracted_pdfs, L.data, TRUE)
                   ELSE Begin(0, <<>>, L.data, FALSE)
    /\ stop_at' = 0
    /\ UNCHANGED <<env, stop_requested, excel, faults>>

\* extract_all_voter_cards (the resume dialog: Yes resumes, No unlinks the
\* checkpoint) followed by batch_extract_thread, lines 690-727.
BET_Start ==
    /\ variant = "gui" /\ run.pc = "idle" /\ ~excel.saved
    /\ \E resume_mode \in BOOLEAN :
         LET kept == IF file.kind # "none" /\ ~resume_mode THEN NoFile ELSE file
             L    == IF file.kind # "none" /\ resume_mode
                     THEN LoadGui(kept)
                     ELSE [ok |-> FALSE, died |-> FALSE, data |-> DefaultData,
                           file |-> kept]
         IN  /\ data' = L.data
             /\ file' = L.file
             /\ run' = IF L.died THEN IdleRun("died")
                       ELSE IF L.ok
                       THEN Begin(L.data.phase, L.data.extracted_pdfs, L.data, TRUE)
                       ELSE Begin(0, <<>>, L.data, FALSE)
    /\ stop_requested' = FALSE
    /\ stop_at' = 0
    /\ UNCHANGED <<env, excel, faults>>

\* VoterCounterApp.stop_and_save: the button is enabled while a run is active
\* and disabled by the click.
stop_and_save ==
    /\ variant = "gui" /\ run.pc # "idle" /\ ~stop_requested
    /\ stop_requested' = TRUE
    /\ stop_at' = PhaseOfPc(run.pc)
    /\ UNCHANGED <<env, file, data, run, excel, faults>>

\* The orchestrator's process dies (kill, power loss, Ctrl-C): memory is
\* gone, the checkpoint path keeps the last completed save.
Crash ==
    /\ run.pc # "idle"
    /\ run' = IdleRun("crashed")
    /\ data' = DefaultData
    /\ stop_requested' = FALSE
    /\ stop_at' = 0
    /\ UNCHANGED <<env, file, excel, faults>>

\* ----------------------------------------------------------------- Phase 1
\* pdf_files not yet in pdf_card_info, in sorted order.
PdfsToExtract(info) == Filter([p \in 1..NumPdfs |-> p], Pdfs \ Keys(info))

\* process_constituency, lines 485-494: one iteration of the extraction loop;
\* the checkpoint is saved after every PDF.
PC_Phase1Extract ==
    /\ variant = "headless" /\ run.pc = "at1"
    /\ PdfsToExtract(run.pdf_card_info) # <<>>
    /\ LET e    == ExtractCards(source, Head(PdfsToExtract(run.pdf_card_info)))
           info == DictPut(run.pdf_card_info, e)
       IN  /\ run' = [run EXCEPT !.pdf_card_info = info, !.completed = @ + 1]
           /\ data' = [data EXCEPT !.extracted_pdfs = info]
           /\ file' = Save(data')
    /\ UNCHANGED <<env, stop_requested, excel, faults, stop_at>>

\* process_constituency, lines 496-514: build the card list, commit phase 1.
PC_Phase1Commit ==
    /\ variant = "headless" /\ run.pc = "at1"
    /\ PdfsToExtract(run.pdf_card_info) = <<>>
    /\ data' = [data EXCEPT !.all_cards = BuildCards(source, run.pdf_card_info, <<>>),
                            !.phase = 1]
    /\ file' = Save(data')
    /\ run' = [run EXCEPT !.pc = "at2", !.current_phase = 1, !.completed = 0,
                          !.all_cards = data'.all_cards]
    /\ UNCHANGED <<env, stop_requested, excel, faults, stop_at>>

\* batch_extract_thread, lines 730-741: submit every PDF not yet extracted.
BET_Phase1Begin ==
    /\ variant = "gui" /\ run.pc = "at1"
    /\ LET todo == PdfsToExtract(run.pdf_card_info) IN
         run' = [run EXCEPT !.pc = IF todo # <<>> THEN "p1loop" ELSE "p1check",
                            !.futures = Range(todo),
                            !.completed = Len(run.pdf_card_info)]
    /\ UNCHANGED <<env, file, data, stop_requested, excel, faults, stop_at>>

\* batch_extract_thread, lines 743-772: one iteration of the as_completed
\* loop.  Any outstanding task may be the next to complete; the stop flag is
\* read first and ends the loop; a result that raises is only counted.
BET_Phase1Result ==
    /\ variant = "gui" /\ run.pc = "p1loop"
    /\ \E p \in run.futures, raises \in BOOLEAN :
         /\ raises => faults < MaxFaults /\ ~stop_requested
         /\ LET left == run.futures \ {p}
                next == IF left = {} THEN "p1check" ELSE "p1loop"
                e    == ExtractCards(source, p)
                n    == run.completed + 1
            IN  IF stop_requested
                THEN /\ run' = [run EXCEPT !.pc = "p1check", !.futures = {}]
                     /\ UNCHANGED <<data, file, faults>>
                ELSE IF raises
                THEN /\ run' = [run EXCEPT !.pc = next, !.futures = left,
                                           !.completed = n]
                     /\ faults' = faults + 1
                     /\ UNCHANGED <<data, file>>
                ELSE /\ run' = [run EXCEPT !.pc = next, !.futures = left,
                                           !.completed = n,
                                           !.pdf_card_info = DictPut(@, e)]
                     /\ data' = add_extracted_pdf(data, e)
                     /\ file' = IF n % SaveEvery = 0 THEN Save(data') ELSE file
                     /\ UNCHANGED faults
    /\ UNCHANGED <<env, stop_requested, excel, stop_at>>

\* BET_Phase1Check whose stop branch deletes the checkpoint instead of
\* saving it.
Mutant_BET_Phase1Check ==
    /\ variant = "gui" /\ run.pc = "p1check"
    /\ IF stop_requested
       THEN /\ data' = [data EXCEPT !.phase = 0]
            /\ file' = NoFile
            /\ run' = Ended(run, "stopped", 1)
       ELSE /\ run' = [run EXCEPT !.pc = "p1build"]
            /\ UNCHANGED <<data, file>>
    /\ UNCHANGED <<env, stop_requested, excel, faults, stop_at>>

\* batch_extract_thread, lines 774-779: the stop check that ends Phase 1.
BET_Phase1Check ==
    /\ variant = "gui" /\ run.pc = "p1check"
    /\ IF stop_requested
       THEN /\ data' = [data EXCEPT !.phase = 0]
            /\ file' = Save(data')
            /\ run' = Ended(run, "stopped", 1)
       ELSE /\ run' = [run EXCEPT !.pc = "p1build"]
            /\ UNCHANGED <<data, file>>
    /\ UNCHANGED <<env, stop_requested, excel, faults, stop_at>>

\* batch_extract_thread, lines 781-801: build the card list, commit phase 1.
BET_Phase1Commit ==
    /\ variant = "gui" /\ run.pc = "p1build"
    /\ data' = [data EXCEPT !.extracted_pdfs = run.pdf_card_info,
                            !.all_cards = BuildCards(source, run.pdf_card_info, <<>>),
                            !.phase = 1]
    /\ file' = Save(data')
    /\ run' = [run EXCEPT !.pc = "at2", !.current_phase = 1, !.completed = 0]
    /\ UNCHANGED <<env, stop_requested, excel, faults, stop_at>>

\* ----------------------------------------------------------------- Phase 2
Min(a, b) == IF a < b THEN a ELSE b

\* CardsToOcr without the filter: every card is submitted again.
Mutant_CardsToOcr(all_cards, completed_indices) == all_cards

\* cards_to_ocr = [(p, idx, name) for ... in all_cards if idx not in completed_indices]
CardsToOcr(all_cards, completed_indices) ==
    SelectSeq(all_cards, LAMBDA c : c[2] \notin completed_indices)

\* StoreResult that keeps only results with a field map (an `if data:` guard).
Mutant_StoreResult(table, r) ==
    IF r[3] = None THEN table ELSE (r[1] :> <<r[2], r[3], r[4]>>) @@ table

\* ocr_results[global_idx] = (s_no, data, pdf_name): the orchestrator's table,
\* keyed by the index the worker returned.  r = <<global_idx, s_no, data, pdf_name>>.
StoreResult(table, r) == (r[1] :> <<r[2], r[3], r[4]>>) @@ table

\* process_constituency, lines 517-535: take the card list and the results
\* already in the checkpoint, submit every remaining card.
PC_Phase2Begin ==
    /\ variant = "headless" /\ run.pc = "at2"
    /\ LET cards == CardsToOcr(data.all_cards, CompletedIndices(data)) IN
         run' = [run EXCEPT !.pc = IF cards # <<>> THEN "p2loop" ELSE "p2end",
                            !.all_cards = data.all_cards,
                            !.ocr_results = get_ocr_results(data),
                            !.futures = Range(cards),
                            !.completed = Cardinality(CompletedIndices(data)),
                            !.total = Len(data.all_cards)]
    /\ UNCHANGED <<env, file, data, stop_requested, excel, faults, stop_at>>

\* process_constituency, lines 537-553: one iteration of the as_completed
\* loop; a result that raises is logged and nothing is recorded for it.
PC_Phase2Result ==
    /\ variant = "headless" /\ run.pc = "p2loop"
    /\ \E card \in run.futures, raises \in BOOLEAN :
         /\ raises => faults < MaxFaults
         /\ LET left == run.futures \ {card}
                next == IF left = {} THEN "p2end" ELSE "p2loop"
                r    == ocr_single_card("headless", card)
                n    == run.completed + 1
            IN  IF raises
                THEN /\ run' = [run EXCEPT !.pc = next, !.futures = left]
                     /\ faults' = faults + 1
                     /\ UNCHANGED <<data, file>>
                ELSE /\ run' = [run EXCEPT !.pc = next, !.futures = left,
                                           !.completed = n,
                                           !.ocr_results = StoreResult(@, r)]
                     /\ data' = add_ocr_result(data, r)
                     /\ file' = IF n % SaveEvery = 0 THEN Save(data') ELSE file
                     /\ UNCHANGED faults
    /\ UNCHANGED <<env, stop_requested, excel, stop_at>>

\* process_constituency, lines 555-559: commit phase 2.
PC_Phase2Commit ==
    /\ variant = "headless" /\ run.pc = "p2end"
    /\ data' = [data EXCEPT !.phase = 2]
    /\ file' = Save(data')
    /\ run' = [run EXCEPT !.pc = "at3", !.current_phase = 2, !.completed = 0,
                          !.total = 0]
    /\ UNCHANGED <<env, stop_requested, excel, faults, stop_at>>

\* batch_extract_thread, lines 804-887: the card list of the checkpoint (or,
\* if it is empty, one rebuilt from pdf_card_info), the results already in the
\* checkpoint, and the first batch of submissions.
BET_Phase2Begin ==
    /\ variant = "gui" /\ run.pc = "at2"
    /\ LET saved == data.all_cards
           all   == IF Len(saved) > 0 THEN saved
                    ELSE BuildCards(source, run.pdf_card_info, <<>>)
           cards == CardsToOcr(all, CompletedIndices(data))
           first == Min(batch_size, Len(cards))
       IN  /\ data' = [data EXCEPT !.all_cards = all]
           /\ run' = [run EXCEPT
                        !.pc = IF cards # <<>> THEN "p2loop" ELSE "p2end",
                        !.all_cards = all,
                        !.ocr_results = get_ocr_results(data),
                        !.futures = Range(SubSeq(cards, 1, first)),
                        !.todo = SubSeq(cards, first + 1, Len(cards)),
                        !.completed = Cardinality(CompletedIndices(data)),
                        !.total = Len(all)]
    /\ UNCHANGED <<env, file, stop_requested, excel, faults, stop_at>>

\* batch_extract_thread, lines 889-944: the polling loop, one done future at
\* a time.  The stop flag is read at the top of the while loop and ends it
\* (observed); a future already collected in done_futures is still retrieved
\* after a stop.  A result that raises is only counted; every retrieved
\* future is replaced by the next card of card_iter.
BET_Phase2Result ==
    /\ variant = "gui" /\ run.pc = "p2loop"
    /\ \E card \in run.futures, raises \in BOOLEAN, observed \in BOOLEAN :
         /\ raises => faults < MaxFaults /\ ~observed
         /\ observed => stop_requested
         /\ LET more == IF run.todo # <<>> THEN {Head(run.todo)} ELSE {}
                left == (run.futures \ {card}) \cup more
                rest == IF run.todo # <<>> THEN Tail(run.todo) ELSE <<>>
                next == IF left = {} THEN "p2end" ELSE "p2loop"
                r    == ocr_single_card("gui", card)
                n    == run.completed + 1
            IN  IF observed
                THEN /\ run' = [run EXCEPT !.pc = "p2end", !.futures = {},
                                           !.todo = <<>>]
                     /\ UNCHANGED <<data, file, faults>>
                ELSE IF raises
                THEN /\ run' = [run EXCEPT !.pc = next, !.futures = left,
                                           !.todo = rest, !.completed = n]
                     /\ faults' = faults + 1
                     /\ UNCHANGED <<data, file>>
                ELSE /\ run' = [run EXCEPT !.pc = next, !.futures = left,
                                           !.todo = rest, !.completed = n,
                                           !.ocr_results = StoreResult(@, r)]
                     /\ data' = add_ocr_result(data, r)
                     /\ file' = IF n % SaveEvery = 0 THEN Save(data') ELSE file
                     /\ UNCHANGED faults
    /\ UNCHANGED <<env, stop_requested, excel, stop_at>>

\* BET_Phase2End without the return of line 951: after a stop the phase is
\* saved and the thread goes on to Phase 3.
Mutant_BET_Phase2End ==
    /\ variant = "gui" /\ run.pc = "p2end"
    /\ data' = [data EXCEPT !.phase = IF stop_requested THEN 1 ELSE 2]
    /\ run' = [run EXCEPT !.pc = "at3", !.current_phase = 2,
                          !.completed = 0, !.total = 0]
    /\ file' = Save(data')
    /\ UNCHANGED <<env, stop_requested, excel, faults, stop_at>>

\* batch_extract_thread, lines 946-954: the stop check that ends Phase 2,
\* else the commit of phase 2.
BET_Phase2End ==
    /\ variant = "gui" /\ run.pc = "p2end"
    /\ IF stop_requested
       THEN /\ data' = [data EXCEPT !.phase = 1]
            /\ run' = Ended(run, "stopped", 2)
       ELSE /\ data' = [data EXCEPT !.phase = 2]
            /\ run' = [run EXCEPT !.pc = "at3", !.current_phase = 2,
                                  !.completed = 0, !.total = 0]
    /\ file' = Save(data')
    /\ UNCHANGED <<env, stop_requested, excel, faults, stop_at>>

\* ----------------------------------------------------------------- Phase 3
\* CardsToFixHeadless without the "if global_idx in enhanced_done: continue"
\* of lines 571-572.
Mutant_CardsToFixHeadless(all_cards, ocr_results, enhanced_done) ==
    {<<all_cards[i + 1][1], i,
       ocr_results[i][2].name = "", ocr_results[i][2].age = "",
       ocr_results[i][2].gender = "">> :
        i \in {j \in DOMAIN ocr_results :
                 /\ ocr_results[j][2] # None
                 /\ \/ ocr_results[j][2].name = ""
                    \/ ocr_results[j][2].age = ""
                    \/ ocr_results[j][2].gender = ""
                 /\ j < Len(all_cards)}}

\* cards_to_fix of process_constituency, lines 567-580: results not yet
\* repaired, with a field map, that lack name, age or gender.
CardsToFixHeadless(all_cards, ocr_results, enhanced_done) ==
    {<<all_cards[i + 1][1], i,
       ocr_results[i][2].name = "", ocr_results[i][2].age = "",
       ocr_results[i][2].gender = "">> :
        i \in {j \in DOMAIN ocr_results :
                 /\ j \notin enhanced_done
                 /\ ocr_results[j][2] # None
                 /\ \/ ocr_results[j][2].name = ""
                    \/ ocr_results[j][2].age = ""
                    \/ ocr_results[j][2].gender = ""
                 /\ j < Len(all_cards)}}

\* cards_to_fix of batch_extract_thread, lines 964-976: age or gender missing.
CardsToFixGui(all_cards, ocr_results, enhanced_done) ==
    {<<all_cards[i + 1][1], i>> :
        i \in {j \in DOMAIN ocr_results :
                 /\ j \notin enhanced_done
                 /\ ocr_results[j][2] # None
                 /\ \/ ocr_results[j][2].age = ""
                    \/ ocr_results[j][2].gender = ""}}

\* process_constituency, lines 598-603: an empty field takes the repaired value.
MergeHeadless(old, enh) ==
    [old EXCEPT !.name   = IF @ = "" /\ enh.name # "" THEN enh.name ELSE @,
                !.age    = IF @ = "" /\ enh.age # "" THEN enh.age ELSE @,
                !.gender = IF @ = "" /\ enh.gender # "" THEN enh.gender ELSE @]

\* MergeGui without the "not old_data.get(...)" tests: a repaired value
\* replaces the one the record had.
Mutant_MergeGui(old, enh) ==
    [old EXCEPT !.age    = IF enh.age # "" THEN enh.age ELSE @,
                !.gender = IF enh.gender # "" THEN enh.gender ELSE @]

\* batch_extract_thread, lines 997-1000.
MergeGui(old, enh) ==
    [old EXCEPT !.age    = IF @ = "" /\ enh.age # "" THEN enh.age ELSE @,
                !.gender = IF @ = "" /\ enh.gender # "" THEN enh.gender ELSE @]

\* process_constituency, lines 565-588 and 617-618.
PC_Phase3Begin ==
    /\ variant = "headless" /\ run.pc = "at3"
    /\ LET fix == CardsToFixHeadless(run.all_cards, run.ocr_results,
                                     Range(data.enhanced_ocr_done)) IN
         run' = [run EXCEPT !.pc = IF fix # {} THEN "p3loop" ELSE "p3end",
                            !.futures = fix, !.completed = 0,
                            !.total = Cardinality(fix)]
    /\ UNCHANGED <<env, file, data, stop_requested, excel, faults, stop_at>>

\* process_constituency, lines 590-613: one iteration of the as_completed
\* loop of the repair pool.  The old field map is shared by ocr_results and
\* checkpoint.data, so both see the merge.
PC_Phase3Result ==
    /\ variant = "headless" /\ run.pc = "p3loop"
    /\ \E fix \in run.futures, raises \in BOOLEAN :
         /\ raises => faults < MaxFaults
         /\ LET left == run.futures \ {fix}
                next == IF left = {} THEN "p3end" ELSE "p3loop"
                r    == enhanced_ocr_name_age_gender(fix)
                idx  == r[1]
                n    == run.completed + 1
                hit  == /\ r[2] # None /\ idx \in DOMAIN run.ocr_results
                        /\ run.ocr_results[idx][2] # None
                old  == run.ocr_results[idx]
                new  == <<idx, old[1], MergeHeadless(old[2], r[2]), old[3]>>
                done == [data EXCEPT !.enhanced_ocr_done = Append(@, idx)]
            IN  IF raises
                THEN /\ run' = [run EXCEPT !.pc = next, !.futures = left,
                                           !.completed = n]
                     /\ faults' = faults + 1
                     /\ UNCHANGED <<data, file>>
                ELSE /\ run' = [run EXCEPT !.pc = next, !.futures = left,
                                  !.completed = n,
                                  !.ocr_results = IF hit THEN StoreResult(@, new)
                                                  ELSE @]
                     /\ data' = IF hit THEN add_ocr_result(done, new) ELSE done
                     /\ file' = IF n % SaveEvery = 0 \/ n = run.total
                                THEN Save(data') ELSE file
                     /\ UNCHANGED faults
    /\ UNCHANGED <<env, stop_requested, excel, stop_at>>

\* process_constituency, lines 615-622: commit phase 3.
PC_Phase3Commit ==
    /\ variant = "headless" /\ run.pc = "p3end"
    /\ data' = [data EXCEPT !.phase = 3]
    /\ file' = Save(data')
    /\ run' = [run EXCEPT !.pc = "at4", !.completed = 0, !.total = 0]
    /\ UNCHANGED <<env, stop_requested, excel, faults, stop_at>>

\* batch_extract_thread, lines 960-983 and 1030: with nothing to fix the
\* phase is committed at once, without a stop check.
BET_Phase3Begin ==
    /\ variant = "gui" /\ run.pc = "at3"
    /\ LET fix == CardsToFixGui(run.all_cards, run.ocr_results,
                                Range(data.enhanced_ocr_done)) IN
         IF fix # {}
         THEN /\ run' = [run EXCEPT !.pc = "p3loop", !.futures = fix,
                                    !.completed = 0, !.total = Cardinality(fix)]
              /\ UNCHANGED <<data, file>>
         ELSE /\ data' = [data EXCEPT !.phase = 3]
              /\ file' = Save(data')
              /\ run' = [run EXCEPT !.pc = "at4"]
    /\ UNCHANGED <<env, stop_requested, excel, faults, stop_at>>

\* batch_extract_thread, lines 985-1021: one iteration of the as_completed
\* loop of the repair pool.
BET_Phase3Result ==
    /\ variant = "gui" /\ run.pc = "p3loop"
    /\ \E fix \in run.futures, raises \in BOOLEAN :
         /\ raises => faults < MaxFaults /\ ~stop_requested
         /\ LET left == run.futures \ {fix}
                next == IF left = {} THEN "p3end" ELSE "p3loop"
                r    == enhanced_ocr_age_gender(fix)
                idx  == r[1]
                n    == run.completed + 1
                hit  == /\ r[2] # None /\ idx \in DOMAIN run.ocr_results
                        /\ run.ocr_results[idx][2] # None
                old  == run.ocr_results[idx]
                new  == <<idx, old[1], MergeGui(old[2], r[2]), old[3]>>
                done == add_enhanced_ocr(data, idx)
            IN  IF stop_requested
                THEN /\ run' = [run EXCEPT !.pc = "p3end", !.futures = {}]
                     /\ UNCHANGED <<data, file, faults>>
                ELSE IF raises
                THEN /\ run' = [run EXCEPT !.pc = next, !.futures = left,
                                           !.completed = n]
                     /\ faults' = faults + 1
                     /\ UNCHANGED <<data, file>>
                ELSE /\ run' = [run EXCEPT !.pc = next, !.futures = left,
                                  !.completed = n,
                                  !.ocr_results = IF hit THEN StoreResult(@, new)
                                                  ELSE @]
                     /\ data' = IF hit THEN add_ocr_result(done, new) ELSE done
                     /\ file' = IF n % SaveEvery = 0 THEN Save(data') ELSE file
                     /\ UNCHANGED faults
    /\ UNCHANGED <<env, stop_requested, excel, stop_at>>

\* BET_Phase3End with the stop branch of Phase 2 pasted in: a stop in Phase 3
\* records phase 1.
Mutant_BET_Phase3End ==
    /\ variant = "gui" /\ run.pc = "p3end"
    /\ IF stop_requested
       THEN /\ data' = [data EXCEPT !.phase = 1]
            /\ run' = Ended(run, "stopped", 3)
       ELSE /\ data' = [data EXCEPT !.phase = 3]
            /\ run' = [run EXCEPT !.pc = "at4", !.completed = 0, !.total = 0]
    /\ file' = Save(data')
    /\ UNCHANGED <<env, stop_requested, excel, faults, stop_at>>

\* batch_extract_thread, lines 1023-1030: the stop check that ends Phase 3,
\* else the commit of phase 3.
BET_Phase3End ==
    /\ variant = "gui" /\ run.pc = "p3end"
    /\ IF stop_requested
       THEN /\ data' = [data EXCEPT !.phase = 2]
            /\ run' = Ended(run, "stopped", 3)
       ELSE /\ data' = [data EXCEPT !.phase = 3]
            /\ run' = [run EXCEPT !.pc = "at4", !.completed = 0, !.total = 0]
    /\ file' = Save(data')
    /\ UNCHANGED <<env, stop_requested, excel, faults, stop_at>>

\* ----------------------------------------------------------------- Phase 4
\* The rows of the workbook: for global_idx in sorted(ocr_results.keys()),
\* (s_no, the fields, pdf_name); a null field map gives empty cells.
EmptyFields == [voter_id |-> "", name |-> "", age |-> "", gender |-> ""]

RECURSIVE RowsFrom(_, _)
RowsFrom(table, keys) ==
    IF keys = {} THEN <<>>
    ELSE LET i == CHOOSE k \in keys : \A j \in keys : k <= j
             t == table[i]
         IN  <<[s_no |-> t[1],
                fields |-> IF t[2] # None THEN t[2] ELSE EmptyFields,
                pdf_name |-> t[3]]>> \o RowsFrom(table, keys \ {i})

ExportRows(d) == RowsFrom(get_ocr_results(d), DOMAIN get_ocr_results(d))

\* process_constituency, lines 624-699: the workbook is built from the
\* checkpoint's table and saved.
PC_Export ==
    /\ variant = "headless" /\ run.pc = "at4"
    /\ excel' = [saved |-> TRUE, rows |-> ExportRows(data)]
    /\ run' = [run EXCEPT !.pc = "finish"]
    /\ UNCHANGED <<env, file, data, stop_requested, faults, stop_at>>

\* process_constituency, lines 714-736: cleanup, checkpoint.delete().
PC_Finish ==
    /\ variant = "headless" /\ run.pc = "finish"
    /\ file' = NoFile
    /\ run' = Ended(run, "completed", 0)
    /\ UNCHANGED <<env, data, stop_requested, excel, faults, stop_at>>

\* batch_extract_thread, lines 1032-1109.
BET_Export ==
    /\ variant = "gui" /\ run.pc = "at4"
    /\ excel' = [saved |-> TRUE, rows |-> ExportRows(data)]
    /\ run' = [run EXCEPT !.pc = "finish"]
    /\ UNCHANGED <<env, file, data, stop_requested, faults, stop_at>>

\* batch_extract_thread, lines 1131-1138: checkpoint.delete().
BET_Finish ==
    /\ variant = "gui" /\ run.pc = "finish"
    /\ file' = NoFile
    /\ run' = Ended(run, "completed", 0)
    /\ UNCHANGED <<env, data, stop_requested, excel, faults, stop_at>>

\* ------------------------------------------------------------ specification
NoExcel == [saved |-> FALSE, rows |-> <<>>]
NoSave == [variant |-> "none"]
NoPool == [kind |-> "none"]
NoUi == [on |-> FALSE]
NoCli == [pc |-> "none"]
NoCalc == [op |-> "none"]

Init ==
    /\ calc = NoCalc
    /\ variant \in Variants
    /\ source \in Sources
    /\ file = NoFile
    /\ data = DefaultData
    /\ run = IdleRun("none")
    /\ stop_requested = FALSE
    /\ excel = NoExcel
    /\ faults = 0
    /\ stop_at = 0
    /\ sv = NoSave
    /\ pool = NoPool
    /\ ui = NoUi
    /\ cli = NoCli

Next ==
    \/ PC_Start \/ BET_Start \/ stop_and_save \/ Crash
    \/ PC_Phase1Extract \/ PC_Phase1Commit
    \/ BET_Phase1Begin \/ BET_Phase1Result \/ BET_Phase1Check \/ BET_Phase1Commit
    \/ PC_Phase2Begin \/ PC_Phase2Result \/ PC_Phase2Commit
    \/ BET_Phase2Begin \/ BET_Phase2Result \/ BET_Phase2End
    \/ PC_Phase3Begin \/ PC_Phase3Result \/ PC_Phase3Commit
    \/ BET_Phase3Begin \/ BET_Phase3Result \/ BET_Phase3End
    \/ PC_Export \/ PC_Finish \/ BET_Export \/ BET_Finish

Spec == Init /\ [][Next]_vars

\* The steps of a started orchestrator: everything but the start of a run,
\* the Stop & Save button and the death of the process.
Steps ==
    \/ PC_Phase1Extract \/ PC_Phase1Commit
    \/ BET_Phase1Begin \/ BET_Phase1Result \/ BET_Phase1Check \/ BET_Phase1Commit
    \/ PC_Phase2Begin \/ PC_Phase2Result \/ PC_Phase2Commit
    \/ BET_Phase2Begin \/ BET_Phase2Result \/ BET_Phase2End
    \/ PC_Phase3Begin \/ PC_Phase3Result \/ PC_Phase3Commit
    \/ BET_Phase3Begin \/ BET_Phase3Result \/ BET_Phase3End
    \/ PC_Export \/ PC_Finish \/ BET_Export \/ BET_Finish

\* Runs whose process is not killed and whose worker tasks all complete: a
\* started orchestrator keeps taking its next step (every submitted future
\* becomes done and is retrieved, every loop body returns).
NextLive == PC_Start \/ BET_Start \/ stop_and_save \/ Steps

\* No retrieval raises in these runs (the fault budget starts used up) and
\* at most the first PDF is unreadable.
InitLive ==
    /\ calc = NoCalc
    /\ variant \in Variants
    /\ source \in {src \in Sources : src.corrupt <= 1}
    /\ file = NoFile
    /\ data = DefaultData
    /\ run = IdleRun("none")
    /\ stop_requested = FALSE
    /\ excel = NoExcel
    /\ faults = MaxFaults
    /\ stop_at = 0
    /\ sv = NoSave
    /\ pool = NoPool
    /\ ui = NoUi
    /\ cli = NoCli

SpecLive == InitLive /\ [][NextLive]_vars /\ WF_vars(Steps)

\* ------------------------------------------------- starting on a bad file
\* A JSON document without the key 'phase' that still carries results: here
\* one OCR entry for index 0 and its repair mark, left by other work.
StaleDoc ==
    [phase |-> -1, extracted_pdfs |-> <<>>,
     ocr_results |-> ("0" :> <<"old", Complete("old"), 0>>),
     enhanced_ocr_done |-> <<0>>, all_cards |-> <<>>]

\* The checkpoint files load() cannot accept.
BadFiles ==
    {[kind |-> "unreadable", data |-> DefaultData],
     [kind |-> "badjson", data |-> DefaultData],
     JsonFile(StaleDoc)}

Bad(f) == f.kind \in {"unreadable", "badjson"} \/ (f.kind = "json" /\ ~HasPhase(f.data))

InitLoad ==
    /\ calc = NoCalc
    /\ variant \in Variants
    /\ source \in Sources
    /\ file \in BadFiles
    /\ data = DefaultData
    /\ run = IdleRun("none")
    /\ stop_requested = FALSE
    /\ excel = NoExcel
    /\ faults = 0
    /\ stop_at = 0
    /\ sv = NoSave
    /\ pool = NoPool
    /\ ui = NoUi
    /\ cli = NoCli

SpecLoad == InitLoad /\ [][Next]_vars

\* ------------------------------------------------ CheckpointManager.save
\* One CheckpointManager writing snapshot after snapshot to one checkpoint
\* path.  A file is <<snapshot number, chunks written>>; snapshot 0 is no file.
\*   headless, gui   open(temp_path, 'w'); json.dump; temp_path.replace(path)
\*   fast            open(checkpoint_path, 'w'); json.dump
SaveVariants == {"headless", "gui", "fast"}
Absent == [snap |-> 0, len |-> 0]
Full(k) == IF k = 0 THEN Absent ELSE [snap |-> k, len |-> Chunks]
rest == <<variant, source, file, data, run, stop_requested, excel, faults, stop_at,
          pool, ui, cli, calc>>

\* open(..., 'w') creates or truncates the file the variant writes to.
save_open ==
    /\ sv.variant \in SaveVariants /\ sv.pc = "idle" /\ sv.n < MaxSaves
    /\ sv' = IF sv.variant = "fast"
             THEN [sv EXCEPT !.pc = "writing", !.n = @ + 1, !.prev = sv.path,
                             !.path = [snap |-> sv.n + 1, len |-> 0]]
             ELSE [sv EXCEPT !.pc = "writing", !.n = @ + 1, !.prev = sv.path,
                             !.tmp = [snap |-> sv.n + 1, len |-> 0]]
    /\ UNCHANGED rest

\* json.dump: one more chunk reaches the open file.
save_dump ==
    /\ sv.variant \in SaveVariants /\ sv.pc = "writing"
    /\ sv' = IF sv.variant = "fast"
             THEN [sv EXCEPT !.path.len = @ + 1]
             ELSE [sv EXCEPT !.tmp.len = @ + 1]
    /\ (IF sv.variant = "fast" THEN sv.path.len ELSE sv.tmp.len) < Chunks
    /\ UNCHANGED rest

\* temp_path.replace(checkpoint_path), after the with block closed the file.
save_replace ==
    /\ sv.variant \in {"headless", "gui"} /\ sv.pc = "writing"
    /\ sv.tmp.len = Chunks
    /\ sv' = [sv EXCEPT !.pc = "idle", !.path = sv.tmp, !.tmp = Absent]
    /\ UNCHANGED rest

\* voter_counter_app_fast.py: the with block closes the checkpoint path.
save_close ==
    /\ sv.variant = "fast" /\ sv.pc = "writing"
    /\ sv.path.len = Chunks
    /\ sv' = [sv EXCEPT !.pc = "idle"]
    /\ UNCHANGED rest

\* json.dump raises (disk full, a value json cannot encode): the headless
\* save logs it, the GUI save also unlinks the temp file, the fast save lets
\* the exception out.
save_error ==
    /\ sv.variant \in SaveVariants /\ sv.pc = "writing"
    /\ (IF sv.variant = "fast" THEN sv.path.len ELSE sv.tmp.len) < Chunks
    /\ sv' = CASE sv.variant = "headless" -> [sv EXCEPT !.pc = "idle"]
               [] sv.variant = "gui" -> [sv EXCEPT !.pc = "idle", !.tmp = Absent]
               [] OTHER -> [sv EXCEPT !.pc = "raised"]
    /\ UNCHANGED rest

\* The process dies inside save(): the files stay as they are.
save_crash ==
    /\ sv.variant \in SaveVariants /\ sv.pc = "writing"
    /\ sv' = [sv EXCEPT !.pc = "dead"]
    /\ UNCHANGED rest

InitSave ==
    /\ calc = NoCalc
    /\ variant = "headless"
    /\ source = [corrupt |-> 0, shift |-> 0]
    /\ file = NoFile
    /\ data = DefaultData
    /\ run = IdleRun("none")
    /\ stop_requested = FALSE
    /\ excel = NoExcel
    /\ faults = 0
    /\ stop_at = 0
    /\ sv \in {[variant |-> v, pc |-> "idle", n |-> 0, path |-> Absent,
                tmp |-> Absent, prev |-> Absent] : v \in SaveVariants}
    /\ pool = NoPool
    /\ ui = NoUi
    /\ cli = NoCli

NextSave ==
    \/ save_open \/ save_dump \/ save_replace \/ save_close
    \/ save_error \/ save_crash

SpecSave == InitSave /\ [][NextSave]_vars

\* ---------------------------------------------------- the process pools
\* One ProcessPoolExecutor and the loop that feeds and drains it, task by
\* task.  A task is the position of its input in the list handed to the loop.
\*   headless_ocr   process_constituency, Phase 2   (lines 534-553)
\*   gui_ocr        batch_extract_thread, Phase 2   (lines 876-944)
\*   gui_extract    batch_extract_thread, Phase 1   (lines 739-772)
\* A task is new (not submitted), queued, running, done (result waiting),
\* retrieved (future.result() taken) or cancelled.
PoolKinds == {"headless_ocr", "gui_ocr", "gui_extract"}
\* Largest number of inputs handed to one pool.
MaxTasks == 4
\* max_workers of the executor.
num_workers == 2

others == <<variant, source, file, data, run, stop_requested, excel, faults,
            stop_at, sv, ui, cli, calc>>

TasksIn(p, states) == {t \in DOMAIN p.task : p.task[t] \in states}
\* The futures dict of the loop: submitted and not yet retrieved.
Futures(p) == TasksIn(p, {"queued", "running", "done", "cancelled"})
Submitted(p) == TasksIn(p, {"queued", "running", "done", "cancelled", "retrieved"})
Lowest(S) == CHOOSE t \in S : \A u \in S : t <= u

\* The submissions that open the loop: the whole list (the dict
\* comprehensions of lines 535 and 740), or the first batch_size cards
\* (lines 881-887).
pool_begin ==
    /\ pool.kind \in PoolKinds /\ pool.pc = "begin"
    /\ LET n == Len(pool.task)
           k == IF pool.kind = "gui_ocr" THEN Min(batch_size, n) ELSE n
       IN  pool' = [pool EXCEPT !.pc = "loop",
                        !.task = [t \in 1..n |-> IF t <= k THEN "queued" ELSE "new"]]
    /\ UNCHANGED others

\* A worker process takes the next work item.
pool_run ==
    /\ pool.kind \in PoolKinds /\ pool.pc \in {"loop", "retrieve", "exit"}
    /\ TasksIn(pool, {"queued"}) # {}
    /\ Cardinality(TasksIn(pool, {"running"})) < num_workers
    /\ pool' = [pool EXCEPT !.task[Lowest(TasksIn(pool, {"queued"}))] = "running"]
    /\ UNCHANGED others

\* A worker process returns its result.
pool_done ==
    /\ pool.kind \in PoolKinds
    /\ \E t \in TasksIn(pool, {"running"}) :
         pool' = [pool EXCEPT !.task[t] = "done"]
    /\ UNCHANGED others

\* stop_and_save, lines 636-639, while the pool is open.
pool_stop ==
    /\ pool.kind \in {"gui_ocr", "gui_extract"}
    /\ pool.pc \in {"loop", "retrieve"} /\ ~pool.stop
    /\ pool' = [pool EXCEPT !.stop = TRUE]
    /\ UNCHANGED others

\* executor.shutdown(wait=False, cancel_futures=True): the work items still
\* pending are cancelled; those already handed to the call queue (keep) run.
Shutdown(p, keep) ==
    [p EXCEPT !.pc = "exit", !.observed = TRUE, !.done_futures = {},
              !.task = [t \in DOMAIN p.task |->
                          IF p.task[t] = "queued" /\ t \notin keep
                          THEN "cancelled" ELSE p.task[t]]]

\* pool_poll that calls shutdown on a stop without leaving the loop.
Mutant_pool_poll ==
    /\ pool.kind = "gui_ocr" /\ pool.pc = "loop"
    /\ IF Futures(pool) = {}
       THEN pool' = [pool EXCEPT !.pc = "exit"]
       ELSE IF pool.stop /\ ~pool.observed
       THEN \E keep \in SUBSET TasksIn(pool, {"queued"}) :
              pool' = [Shutdown(pool, keep) EXCEPT !.pc = "loop"]
       ELSE /\ TasksIn(pool, {"done"}) # {}
            /\ pool' = [pool EXCEPT !.pc = "retrieve",
                                    !.done_futures = TasksIn(pool, {"done"})]
    /\ UNCHANGED others

\* batch_extract_thread, lines 889-902: the top of `while futures`.  The loop
\* ends when the dict is empty; a stop shuts the executor down and breaks;
\* else the futures that are done are collected (none done: sleep and retry).
pool_poll ==
    /\ pool.kind = "gui_ocr" /\ pool.pc = "loop"
    /\ IF Futures(pool) = {}
       THEN pool' = [pool EXCEPT !.pc = "exit"]
       ELSE IF pool.stop
       THEN \E keep \in SUBSET TasksIn(pool, {"queued"}) :
              pool' = Shutdown(pool, keep)
       ELSE /\ TasksIn(pool, {"done"}) # {}
            /\ pool' = [pool EXCEPT !.pc = "retrieve",
                                    !.done_futures = TasksIn(pool, {"done"})]
    /\ UNCHANGED others

\* batch_extract_thread, lines 904-944: one future of done_futures: take its
\* result, record it, delete the future, submit the next card of card_iter.
pool_retrieve ==
    /\ pool.kind = "gui_ocr" /\ pool.pc = "retrieve"
    /\ LET t    == Lowest(pool.done_futures)
           left == pool.done_futures \ {t}
           new  == TasksIn(pool, {"new"})
           took == [pool EXCEPT !.task[t] = "retrieved",
                                !.recorded = @ \cup {t},
                                !.done_futures = left,
                                !.pc = IF left = {} THEN "loop" ELSE "retrieve"]
       IN  pool' = IF new = {} THEN took
                   ELSE [took EXCEPT !.task[Lowest(new)] = "queued"]
    /\ UNCHANGED others

\* One iteration of `for future in as_completed(futures)`: lines 537-553 of
\* process_constituency, lines 742-772 of batch_extract_thread (which reads
\* the stop flag first).  The loop ends when every future was yielded.
pool_as_completed ==
    /\ pool.kind \in {"headless_ocr", "gui_extract"} /\ pool.pc = "loop"
    /\ IF Futures(pool) = {}
       THEN pool' = [pool EXCEPT !.pc = "exit"]
       ELSE \E t \in TasksIn(pool, {"done"}) :
              IF pool.kind = "gui_extract" /\ pool.stop
              THEN \E keep \in SUBSET TasksIn(pool, {"queued"}) :
                     pool' = Shutdown(pool, keep)
              ELSE pool' = [pool EXCEPT !.task[t] = "retrieved",
                                        !.recorded = @ \cup {t}]
    /\ UNCHANGED others

\* The end of the with block: ProcessPoolExecutor.__exit__ is
\* shutdown(wait=True), which returns when no work item is left to run.
pool_exit ==
    /\ pool.kind \in PoolKinds /\ pool.pc = "exit"
    /\ TasksIn(pool, {"queued", "running"}) = {}
    /\ pool' = [pool EXCEPT !.pc = "closed"]
    /\ UNCHANGED others

InitPool ==
    /\ calc = NoCalc
    /\ variant = "headless"
    /\ source = [corrupt |-> 0, shift |-> 0]
    /\ file = NoFile
    /\ data = DefaultData
    /\ run = IdleRun("none")
    /\ stop_requested = FALSE
    /\ excel = NoExcel
    /\ faults = 0
    /\ stop_at = 0
    /\ sv = NoSave
    /\ pool \in {[kind |-> k, pc |-> "begin", task |-> [t \in 1..n |-> "new"],
                  recorded |-> {}, stop |-> FALSE, observed |-> FALSE,
                  done_futures |-> {}] : k \in PoolKinds, n \in 1..MaxTasks}
    /\ ui = NoUi
    /\ cli = NoCli

NextPool ==
    \/ pool_begin \/ pool_run \/ pool_done \/ pool_stop
    \/ pool_poll \/ pool_retrieve \/ pool_as_completed \/ pool_exit

SpecPool == InitPool /\ [][NextPool]_vars

\* ------------------------------------------------------------ the web UI
\* src/cloud/voter_processor_ui.py: browser sessions of the Streamlit page,
\* the status file .processing_status.json and the run_processor threads,
\* each of which runs one process_batch_headless.py process on a folder.
\* Number of browser sessions.
NumSessions == 2
\* Number of run_processor threads followed in one behaviour.
MaxRuns == 3
\* Number of uploaded constituency folders.
NumFolders == 2

Sessions == 1..NumSessions
Folders == 1..NumFolders
outside == <<variant, source, file, data, run, stop_requested, excel, faults,
             stop_at, sv, pool, cli, calc>>

\* A run_processor invocation is active from start_processing until its
\* process has exited.
ActiveRuns(u) == {r \in DOMAIN u.runs : u.runs[r].pc \in {"started", "marked", "running"}}

\* A script run of the page for one session: status = load_status();
\* is_processing = status['processing'] (lines 358-359, 421-422); the Start
\* buttons are drawn with disabled=is_processing.
ui_render ==
    /\ ui.on
    /\ \E s \in Sessions :
         /\ ui.is_processing[s] # ui.status.processing
         /\ ui' = [ui EXCEPT !.is_processing[s] = ui.status.processing]
    /\ UNCHANGED outside

\* A click on "Upload & Process" or "Start" (lines 367-395, 434-435).  The
\* button is enabled in the browser, the click reruns the script, which
\* reads the status file again and draws the button enabled again; then
\* start_processing (227-234) starts the thread.
start_processing ==
    /\ ui.on /\ Len(ui.runs) < MaxRuns
    /\ \E s \in Sessions, f \in Folders :
         /\ ~ui.is_processing[s]
         /\ ~ui.status.processing
         /\ ui' = [ui EXCEPT !.runs = Append(@, [pc |-> "started", folder |-> f])]
    /\ UNCHANGED outside

\* run_processor, lines 160-166: load_status, processing = True, save_status.
run_mark ==
    /\ ui.on
    /\ \E r \in DOMAIN ui.runs :
         /\ ui.runs[r].pc = "started"
         /\ ui' = [ui EXCEPT !.runs[r].pc = "marked",
                             !.status.processing = TRUE,
                             !.status.current_constituency = ui.runs[r].folder]
    /\ UNCHANGED outside

\* run_processor, lines 179-191: Popen of the headless processor, pid stored.
run_popen ==
    /\ ui.on
    /\ \E r \in DOMAIN ui.runs :
         /\ ui.runs[r].pc = "marked"
         /\ ui' = [ui EXCEPT !.runs[r].pc = "running", !.status.pid = r]
    /\ UNCHANGED outside

\* The headless process exits; process.wait() (line 193) returns.
run_exit ==
    /\ ui.on
    /\ \E r \in DOMAIN ui.runs :
         /\ ui.runs[r].pc = "running"
         /\ ui' = [ui EXCEPT !.runs[r].pc = "exited"]
    /\ UNCHANGED outside

\* run_processor, lines 195-225: the outcome is appended to a copy of the
\* status that is never saved (the status is loaded again at line 221), and
\* the status is marked as done.
run_done ==
    /\ ui.on
    /\ \E r \in DOMAIN ui.runs :
         /\ ui.runs[r].pc = "exited"
         /\ ui' = [ui EXCEPT !.runs[r].pc = "done",
                             !.status.processing = FALSE,
                             !.status.current_constituency = 0,
                             !.status.pid = 0]
    /\ UNCHANGED outside

\* "Clear Queue" and "Clear Errors" of the status tab (lines 519-521 and
\* 542-544).
ui_clear ==
    /\ ui.on
    /\ \/ /\ ui.status.queue # <<>>
          /\ ui' = [ui EXCEPT !.status.queue = <<>>]
       \/ /\ ui.status.errors # <<>>
          /\ ui' = [ui EXCEPT !.status.errors = <<>>]
    /\ UNCHANGED outside

\* kill_process with the history kept whatever reset_history says.
Mutant_KillStatus(status, reset_history) ==
    [status EXCEPT !.processing = FALSE, !.current_constituency = 0,
                   !.pid = 0]

\* kill_process, lines 144-153: the status it saves.  None is written 0.
KillStatus(status, reset_history) ==
    LET idle == [status EXCEPT !.processing = FALSE,
                               !.current_constituency = 0, !.pid = 0]
    IN  IF reset_history
        THEN [idle EXCEPT !.queue = <<>>, !.completed = <<>>, !.errors = <<>>]
        ELSE idle

\* kill_process(reset_history), lines 115-156: the stored pid is signalled,
\* pkill -f ends every process_batch_headless.py, the status is reset and
\* saved.  The page then shows "History preserved." or "History cleared."
KillProcess(reset_history) ==
    /\ ui.on
    /\ ui' = [ui EXCEPT
                !.runs = [r \in DOMAIN ui.runs |->
                            IF ui.runs[r].pc = "running"
                            THEN [ui.runs[r] EXCEPT !.pc = "exited"]
                            ELSE ui.runs[r]],
                !.status = KillStatus(ui.status, reset_history),
                !.message = IF reset_history THEN "cleared" ELSE "preserved"]
    /\ UNCHANGED outside

\* The buttons Kill and Reset Stuck Status (reset_history=False) and
\* Kill & Reset (reset_history=True), lines 491-511.
kill_process == \E reset_history \in BOOLEAN : KillProcess(reset_history)

InitUi ==
    /\ calc = NoCalc
    /\ variant = "headless"
    /\ source = [corrupt |-> 0, shift |-> 0]
    /\ file = NoFile
    /\ data = DefaultData
    /\ run = IdleRun("none")
    /\ stop_requested = FALSE
    /\ excel = NoExcel
    /\ faults = 0
    /\ stop_at = 0
    /\ sv = NoSave
    /\ pool = NoPool
    /\ cli = NoCli
    /\ ui = [on |-> TRUE,
             status |-> [processing |-> FALSE, pid |-> 0,
                         current_constituency |-> 0,
                         queue |-> <<>>, completed |-> <<>>, errors |-> <<>>],
             is_processing |-> [s \in Sessions |-> FALSE],
             message |-> "none",
             runs |-> <<>>]

NextUi ==
    \/ ui_render \/ start_processing \/ run_mark \/ run_popen
    \/ run_exit \/ run_done \/ kill_process

SpecUi == InitUi /\ [][NextUi]_vars

\* kill_process on any status file.  The lists of the file: the defaults of
\* load_status (lines 52-66) or what an earlier session left there.
Histories ==
    [queue : {<<>>, <<1>>}, completed : {<<>>, <<2>>, <<1, 2>>},
     errors : {<<>>, <<1>>}]

\* The status files kill_process can find: idle, marked as processing with
\* or without a stored pid (run_processor, lines 160-190), or stuck.
StatusFiles ==
    {[processing |-> b, pid |-> p, current_constituency |-> c,
      queue |-> h.queue, completed |-> h.completed, errors |-> h.errors] :
        b \in BOOLEAN, p \in 0..1, c \in {0} \cup Folders, h \in Histories}

InitKill ==
    /\ calc = NoCalc
    /\ variant = "headless"
    /\ source = [corrupt |-> 0, shift |-> 0]
    /\ file = NoFile
    /\ data = DefaultData
    /\ run = IdleRun("none")
    /\ stop_requested = FALSE
    /\ excel = NoExcel
    /\ faults = 0
    /\ stop_at = 0
    /\ sv = NoSave
    /\ pool = NoPool
    /\ cli = NoCli
    /\ \E st \in StatusFiles :
         /\ st.pid # 0 => st.processing /\ st.current_constituency # 0
         /\ ui = [on |-> TRUE, status |-> st,
                  is_processing |-> [s \in Sessions |-> st.processing],
                  message |-> "none",
                  runs |-> IF st.pid = 0 THEN <<>>
                           ELSE <<[pc |-> "running",
                                   folder |-> st.current_constituency]>>]

NextKill == kill_process \/ ui_clear

SpecKill == InitKill /\ [][NextKill]_vars

\* ------------------------------------------------- the headless command
\* main() of src/cloud/process_batch_headless.py, invocation by invocation:
\* what the process was given, how far process_constituency got and the
\* exit status the parent sees (Popen.returncode).
\* Number of invocations compared.
NumInvocations == 2

Invocations == 1..NumInvocations
\* SIGINT, SIGKILL, SIGTERM (kill_process of the web UI sends 15, then 9).
Signals == {2, 9, 15}
beside == <<variant, source, file, data, run, stop_requested, excel, faults,
            stop_at, sv, pool, ui, calc>>

\* The three outcomes of a finished invocation.
Outcome(c) ==
    IF c.no_input THEN "no_input"
    ELSE IF c.exported THEN "completed" ELSE "interrupted"

\* process_constituency, lines 433-444: return False when the folder is
\* missing or holds no PDF; else the phases begin.
cli_main ==
    /\ cli.pc # "none"
    /\ \E i \in Invocations :
         /\ cli.inv[i].pc = "main"
         /\ cli' = IF ~cli.inv[i].folder_exists \/ cli.inv[i].total_pdfs = 0
                   THEN [cli EXCEPT !.inv[i].pc = "returned",
                                    !.inv[i].no_input = TRUE,
                                    !.inv[i].success = FALSE]
                   ELSE [cli EXCEPT !.inv[i].pc = "phase1"]
    /\ UNCHANGED beside

\* process_constituency, lines 485-622: Phase 1, 2 or 3 runs to its commit.
cli_phase ==
    /\ cli.pc # "none"
    /\ \E i \in Invocations :
         /\ cli.inv[i].pc \in {"phase1", "phase2", "phase3"}
         /\ cli' = [cli EXCEPT !.inv[i].pc =
                        CASE @ = "phase1" -> "phase2"
                          [] @ = "phase2" -> "phase3"
                          [] OTHER -> "export"]
    /\ UNCHANGED beside

\* process_constituency, lines 624-699: the workbook is written.
cli_export ==
    /\ cli.pc # "none"
    /\ \E i \in Invocations :
         /\ cli.inv[i].pc = "export"
         /\ cli' = [cli EXCEPT !.inv[i].pc = "finish", !.inv[i].exported = TRUE]
    /\ UNCHANGED beside

\* process_constituency, lines 701-736: cleanup, checkpoint.delete(),
\* return True.
cli_finish ==
    /\ cli.pc # "none"
    /\ \E i \in Invocations :
         /\ cli.inv[i].pc = "finish"
         /\ cli' = [cli EXCEPT !.inv[i].pc = "returned", !.inv[i].success = TRUE]
    /\ UNCHANGED beside

\* main, line 759: sys.exit(0 if success else 1).
cli_exit ==
    /\ cli.pc # "none"
    /\ \E i \in Invocations :
         /\ cli.inv[i].pc = "returned"
         /\ cli' = [cli EXCEPT !.inv[i].pc = "exited",
                               !.inv[i].status = IF cli.inv[i].success THEN 0 ELSE 1]
    /\ UNCHANGED beside

\* An exception outside every try block of process_constituency
\* (image_dir.mkdir at 457, the executors at 489, 534 and 586,
\* output_dir.mkdir and wb.save at 697-699) leaves main: the interpreter
\* prints the traceback and exits with status 1.
cli_raise ==
    /\ cli.pc # "none"
    /\ \E i \in Invocations :
         /\ cli.inv[i].pc \in {"phase1", "phase2", "phase3", "export"}
         /\ cli' = [cli EXCEPT !.inv[i].pc = "exited", !.inv[i].status = 1]
    /\ UNCHANGED beside

\* The process is ended by a signal (Ctrl-C, kill_process of the web UI):
\* the parent sees the negated signal number.
cli_signal ==
    /\ cli.pc # "none"
    /\ \E i \in Invocations, sig \in Signals :
         /\ cli.inv[i].pc \in {"phase1", "phase2", "phase3", "export", "finish"}
         /\ cli' = [cli EXCEPT !.inv[i].pc = "exited", !.inv[i].status = 0 - sig]
    /\ UNCHANGED beside

InitCli ==
    /\ calc = NoCalc
    /\ variant = "headless"
    /\ source = [corrupt |-> 0, shift |-> 0]
    /\ file = NoFile
    /\ data = DefaultData
    /\ run = IdleRun("none")
    /\ stop_requested = FALSE
    /\ excel = NoExcel
    /\ faults = 0
    /\ stop_at = 0
    /\ sv = NoSave
    /\ pool = NoPool
    /\ ui = NoUi
    /\ \E give \in [Invocations -> [folder_exists : BOOLEAN, total_pdfs : 0..NumPdfs]] :
         cli = [pc |-> "on",
                inv |-> [i \in Invocations |->
                           [pc |-> "main",
                            folder_exists |-> give[i].folder_exists,
                            total_pdfs |-> IF give[i].folder_exists
                                           THEN give[i].total_pdfs ELSE 0,
                            no_input |-> FALSE, exported |-> FALSE,
                            success |-> FALSE, status |-> 0]]]

NextCli ==
    \/ cli_main \/ cli_phase \/ cli_export \/ cli_finish
    \/ cli_exit \/ cli_raise \/ cli_signal

SpecCli == InitCli /\ [][NextCli]_vars

\* ------------------------------------------------------- the functions
\* Calls of the segmenters, the card parsers and the aggregator, each on
\* inputs drawn from a small set.  `calc` is the call in progress.
apart == <<variant, source, file, data, run, stop_requested, excel, faults,
           stop_at, sv, pool, ui, cli>>
Quiet ==
    /\ variant = "headless"
    /\ source = [corrupt |-> 0, shift |-> 0]
    /\ file = NoFile
    /\ data = DefaultData
    /\ run = IdleRun("none")
    /\ stop_requested = FALSE
    /\ excel = NoExcel
    /\ faults = 0
    /\ stop_at = 0
    /\ sv = NoSave
    /\ pool = NoPool
    /\ ui = NoUi
    /\ cli = NoCli

\* ---- extract_cards_from_pdf_sequential / extract_cards_from_single_pdf
\* for row in range(10): for col in range(3)
num_rows == 10
num_cols == 3
\* if avg_brightness > 252: continue
BlankAbove == 252
\* Largest number of blank cells in one PDF.
MaxBlank == 2
\* len(doc) of the PDFs segmented: pages 3 .. num_pages - 2 hold cards.
PageCounts == {5, 6}
\* The pixels sampled from a cell: printed, white, and exactly on the limit.
CellSamples == {<<0, 255>>, <<255, 255>>, <<252, 252>>}

\* A cell counted even when it is skipped.
Mutant_KeepCell(c, kept, position, cell) ==
    [c EXCEPT !.card_count = @ + 1,
              !.files = IF kept THEN ((c.card_count + 1) :> position) @@ @ ELSE @,
              !.skipped = IF kept THEN @ ELSE @ \cup {position}]

\* The end of the inner loop body: `continue` for a blank cell, else
\* card_count += 1 and the crop is saved as f"{card_count}.png" / ".jpg".
KeepCell(c, kept, position, cell) ==
    IF kept
    THEN [c EXCEPT !.card_count = @ + 1,
                   !.files = ((c.card_count + 1) :> position) @@ @]
    ELSE [c EXCEPT !.skipped = @ \cup {position}]

\* One pass of the inner loop (headless 357-377, GUI 372-395): crop the cell
\* at (page, row, col), estimate its brightness as the mean of the sampled
\* pixels, skip it when the mean is above 252, then move on in row-major
\* order; after the last page the function returns card_count.
seg_cell ==
    /\ calc.op = "seg" /\ calc.pc = "scan"
    /\ \E cell \in CellSamples :
         LET blank == (cell[1] + cell[2]) > BlankAbove * Len(cell)
             here  == <<calc.page, calc.row, calc.col>>
             c     == KeepCell(calc, ~blank, here, cell)
             last_col  == calc.col = num_cols - 1
             last_row  == calc.row = num_rows - 1
             last_page == calc.page = calc.num_pages - 2
         IN  /\ blank => Cardinality(calc.skipped) < MaxBlank
             /\ calc' = [c EXCEPT
                    !.col  = IF last_col THEN 0 ELSE @ + 1,
                    !.row  = IF ~last_col THEN @ ELSE IF last_row THEN 0 ELSE @ + 1,
                    !.page = IF last_col /\ last_row THEN @ + 1 ELSE @,
                    !.pc   = IF last_col /\ last_row /\ last_page
                             THEN "returned" ELSE "scan"]
    /\ UNCHANGED apart

InitSeg ==
    /\ Quiet
    /\ calc \in {[op |-> "seg", pc |-> "scan", num_pages |-> n,
                  page |-> 3, row |-> 0, col |-> 0, card_count |-> 0,
                  files |-> <<>>, skipped |-> {}] : n \in PageCounts}

SpecSeg == InitSeg /\ [][seg_cell]_vars

\* ---- group_entities_to_cards (src/docai_json_to_excel.py, src/batch_gcs.py)
\* An entity is [type, page, x, y, text, num]: x and y are the normalized
\* coordinates in hundredths, num the integer the pattern (\d+) finds in the
\* text (-1: no digit), kw the gender keywords the text holds.
\* Largest number of entities in one call.
MaxEntities == 3
EntityPool ==
    {[type |-> "voterid", page |-> 1, x |-> 10, y |-> 10, text |-> "A", num |-> -1, kw |-> {}],
     [type |-> "voterid", page |-> 1, x |-> 10, y |-> 30, text |-> "B", num |-> -1, kw |-> {}],
     [type |-> "voterid", page |-> 1, x |-> 33, y |-> 10, text |-> "C", num |-> -1, kw |-> {}],
     [type |-> "voterid", page |-> 1, x |-> 20, y |-> 10, text |-> "D", num |-> -1, kw |-> {}],
     [type |-> "voterid", page |-> 1, x |-> 10, y |-> 16, text |-> "E", num |-> -1, kw |-> {}],
     [type |-> "name", page |-> 1, x |-> 10, y |-> 15, text |-> "n1", num |-> -1, kw |-> {}],
     [type |-> "name", page |-> 1, x |-> 32, y |-> 25, text |-> "n2", num |-> -1, kw |-> {}],
     [type |-> "name", page |-> 1, x |-> 10, y |-> 45, text |-> "n3", num |-> -1, kw |-> {}],
     [type |-> "name", page |-> 1, x |-> 66, y |-> 15, text |-> "n4", num |-> -1, kw |-> {}],
     [type |-> "age", page |-> 1, x |-> 10, y |-> 5, text |-> "120", num |-> 120, kw |-> {}],
     [type |-> "sex", page |-> 1, x |-> 10, y |-> 36, text |-> "mf", num |-> -1,
      kw |-> {"male", "female"}]}

\* lines 65-70: the column bucket of an x coordinate.
Column(x) == IF x < 33 THEN 0 ELSE IF x < 66 THEN 1 ELSE 2

\* lines 77-90: the card slot of one voterid entity.
CardSlot(vid) ==
    [serial_no |-> "", voter_id |-> vid.text, name |-> "", relation_name |-> "",
     house_no |-> "", age |-> "", gender |-> "", page |-> vid.page,
     col |-> Column(vid.x), y_start |-> vid.y, y_end |-> vid.y + 10]

CardKeyLeq(a, b) ==
    \/ a.page < b.page
    \/ a.page = b.page /\ a.col < b.col
    \/ a.page = b.page /\ a.col = b.col /\ a.y_start <= b.y_start

\* line 93: cards.sort(key=(page, col, _y_start)), a stable sort.
RECURSIVE SortCards(_)
SortCards(cards) ==
    IF cards = <<>> THEN <<>>
    ELSE LET n    == Len(cards)
             done == SortCards(SubSeq(cards, 1, n - 1))
             c    == cards[n]
             k    == Cardinality({j \in 1..Len(done) : CardKeyLeq(done[j], c)})
         IN  SubSeq(done, 1, k) \o <<c>> \o SubSeq(done, k + 1, Len(done))

\* YEnds that only shortens: an extent is never moved past its first end.
Mutant_YEndsCapped(cards) ==
    [i \in 1..Len(cards) |->
        LET later == {j \in (i + 1)..Len(cards) :
                        cards[j].page = cards[i].page /\ cards[j].col = cards[i].col}
        IN  IF later = {} \/ cards[Lowest(later)].y_start > cards[i].y_end
            THEN cards[i]
            ELSE [cards[i] EXCEPT !.y_end = cards[Lowest(later)].y_start]]

\* YEnds that leaves every extent at its first length.
Mutant_YEnds(cards) == cards

\* lines 96-100: a card ends where the next card of its page and column starts.
YEnds(cards) ==
    [i \in 1..Len(cards) |->
        LET later == {j \in (i + 1)..Len(cards) :
                        cards[j].page = cards[i].page /\ cards[j].col = cards[i].col}
        IN  IF later = {} THEN cards[i]
            ELSE [cards[i] EXCEPT !.y_end = cards[Lowest(later)].y_start]]

Dist(a, b) == IF a < b THEN b - a ELSE a - b

\* BestCard whose fallback takes the closest card of the whole list.
Mutant_BestCard(cards, e) ==
    IF cards = <<>> THEN 0
    ELSE CHOOSE k \in 1..Len(cards) :
            \A j \in 1..Len(cards) :
                \/ Dist(cards[k].y_start, e.y) < Dist(cards[j].y_start, e.y)
                \/ Dist(cards[k].y_start, e.y) = Dist(cards[j].y_start, e.y) /\ k <= j

\* lines 116-130: the card an entity belongs to (0: none).  The loop stops
\* at the first card of the entity's page and column whose extent holds y; a
\* card closer than 0.12 is remembered on the way; without either, the
\* closest card of the same page and column is taken.
BestCard(cards, e) ==
    LET same == {k \in 1..Len(cards) :
                    cards[k].page = e.page /\ cards[k].col = Column(e.x)}
        hits == {k \in same : cards[k].y_start <= e.y /\ e.y < cards[k].y_end}
        near == {k \in same : Dist(e.y, cards[k].y_start) < 12
                              /\ (hits # {} => k < Lowest(hits))}
    IN  IF hits # {} THEN Lowest(hits)
        ELSE IF near # {} THEN CHOOSE k \in near : \A j \in near : j <= k
        ELSE IF same # {}
        THEN CHOOSE k \in same :
                \A j \in same :
                    \/ Dist(cards[k].y_start, e.y) < Dist(cards[j].y_start, e.y)
                    \/ Dist(cards[k].y_start, e.y) = Dist(cards[j].y_start, e.y) /\ k <= j
        ELSE 0

\* lines 132-155: the field of best_card the entity sets.
SetField(card, e) ==
    CASE e.type = "sno" -> [card EXCEPT !.serial_no = e.text]
      [] e.type = "name" -> [card EXCEPT !.name = e.text]
      [] e.type = "relativename" -> [card EXCEPT !.relation_name = e.text]
      [] e.type = "houseno" -> [card EXCEPT !.house_no = e.text]
      [] e.type = "age" ->
            IF e.num >= 0 /\ 18 <= e.num /\ e.num <= 120
            THEN [card EXCEPT !.age = ToString(e.num)] ELSE card
      [] e.type = "sex" ->
            IF "female" \in e.kw THEN [card EXCEPT !.gender = "Female"]
            ELSE IF "male" \in e.kw THEN [card EXCEPT !.gender = "Male"]
            ELSE card
      [] OTHER -> card

\* lines 73-100: the card slots of the voterid entities, sorted, with extents.
agg_anchors ==
    /\ calc.op = "agg" /\ calc.pc = "anchors"
    /\ LET vids == SelectSeq(calc.entities, LAMBDA e : e.type = "voterid")
           slots == [k \in 1..Len(vids) |-> CardSlot(vids[k])]
       IN  calc' = [calc EXCEPT !.pc = "assign", !.i = 1,
                                !.cards = YEnds(SortCards(slots))]
    /\ UNCHANGED apart

\* lines 103-155: one pass of the loop over the entities.
agg_assign ==
    /\ calc.op = "agg" /\ calc.pc = "assign"
    /\ IF calc.i > Len(calc.entities)
       THEN calc' = [calc EXCEPT !.pc = "done"]
       ELSE LET e == calc.entities[calc.i]
                b == IF e.type = "voterid" THEN 0 ELSE BestCard(calc.cards, e)
            IN  calc' = [calc EXCEPT
                           !.i = @ + 1,
                           !.best = Append(@, b),
                           !.cards = IF b = 0 THEN @
                                     ELSE [@ EXCEPT ![b] = SetField(@, e)]]
    /\ UNCHANGED apart

\* group_entities_to_cards as a whole: the cards after the loop over es.
RECURSIVE AssignAll(_, _)
AssignAll(cards, es) ==
    IF es = <<>> THEN cards
    ELSE LET e == Head(es)
             b == IF e.type = "voterid" THEN 0 ELSE BestCard(cards, e)
         IN  AssignAll(IF b = 0 THEN cards
                       ELSE [cards EXCEPT ![b] = SetField(@, e)], Tail(es))

group_entities_to_cards(es) ==
    LET vids == SelectSeq(es, LAMBDA e : e.type = "voterid")
        slots == [k \in 1..Len(vids) |-> CardSlot(vids[k])]
    IN  AssignAll(YEnds(SortCards(slots)), es)

RECURSIVE SeqsUpTo(_, _)
SeqsUpTo(S, n) ==
    IF n = 0 THEN {<<>>}
    ELSE LET shorter == SeqsUpTo(S, n - 1) IN
         shorter \cup {Append(q, x) : q \in shorter, x \in S}

InitAgg ==
    /\ Quiet
    /\ calc \in {[op |-> "agg", pc |-> "anchors", entities |-> es, cards |-> <<>>,
                  i |-> 0, best |-> <<>>] : es \in SeqsUpTo(EntityPool, MaxEntities)}

NextAgg == agg_anchors \/ agg_assign

SpecAgg == InitAgg /\ [][NextAgg]_vars

\* ---- parse_voter_card (headless) / parse_voter_card_standalone (GUI)
\* The OCR text of a card is the identifier candidates found in it, in text
\* order, and its lines.  A candidate is a token between word boundaries
\* that matches [A-Z0-9]{2,3}\d{6,10}: its length, and whether its prefix is
\* all letters (then it matches [A-Z]{2,3}\d{6,10} too).  A line is the set
\* of keywords it contains (name: பெயர், father: தந்தை, husband: கணவர்,
\* mother: தாய், other: இதரர், age: வயது, gender: பாலினம், male: ஆண்,
\* female: பெண்), whether it holds a colon, the cleaned text after the
\* first colon, and the number after "வயது :" (-1: none).  The rules for
\* serial_no and house_no read and write no other field and are left out.
\* Largest number of lines of one text.
MaxLines == 2
IdPool ==
    [short |-> [text |-> "AB123456", len |-> 8, alpha |-> TRUE],
     long  |-> [text |-> "XYZ1234567", len |-> 10, alpha |-> TRUE],
     mixed |-> [text |-> "1A1234567", len |-> 9, alpha |-> FALSE]]
IdTexts ==
    {<<>>, <<IdPool.short>>, <<IdPool.long, IdPool.short>>,
     <<IdPool.short, IdPool.long>>, <<IdPool.mixed, IdPool.long>>}
Line(kw, value, num) == [kw |-> kw, colon |-> TRUE, value |-> value, num |-> num]
LinePool ==
    {Line({"name"}, "N", -1),
     Line({"father", "name"}, "F", -1),
     Line({"husband"}, "H", -1),
     Line({"mother", "name"}, "M", -1),
     Line({"other", "name"}, "O", -1),
     Line({"father", "name"}, "", -1),
     Line({"father", "husband", "name"}, "X", -1),
     Line({"age"}, "17", 17), Line({"age"}, "18", 18),
     Line({"age"}, "120", 120), Line({"age"}, "121", 121),
     [kw |-> {"gender", "male", "female"}, colon |-> FALSE, value |-> "", num |-> -1],
     [kw |-> {"gender", "female"}, colon |-> FALSE, value |-> "", num |-> -1]}

NoCard ==
    [voter_id |-> "", name |-> "", relation_name |-> "", relation_type |-> "",
     age |-> "", gender |-> ""]

\* The matches of a voter-id pattern, in text order: pattern 1 wants a
\* prefix of letters, pattern 2 takes letters and digits.
IdMatches(pattern, ids) == SelectSeq(ids, LAMBDA c : pattern = 2 \/ c.alpha)

\* Headless lines 118-123: re.search gives the first match of a pattern and
\* only that one is tested for length.  GUI lines 227-239 (and
\* reprocess_excel.py 46-53): re.findall, the first match that is long enough.
VoterId(v, ids) ==
    LET first(p) == IF IdMatches(p, ids) = <<>> THEN ""
                    ELSE IF v = "headless"
                    THEN (IF Head(IdMatches(p, ids)).len >= 9
                          THEN Head(IdMatches(p, ids)).text ELSE "")
                    ELSE LET ok == SelectSeq(IdMatches(p, ids), LAMBDA c : c.len >= 9)
                         IN  IF ok = <<>> THEN "" ELSE Head(ok).text
    IN  IF first(1) # "" THEN first(1) ELSE first(2)

\* The relation rules in the order of the code: father, husband, mother and,
\* in the GUI only, other (headless 146-165, GUI 268-298).
RelationRules(v) ==
    <<[type |-> "Father", any |-> {"father"}, name |-> TRUE],
      [type |-> "Husband", any |-> {"husband"}, name |-> FALSE],
      [type |-> "Mother", any |-> {"mother"}, name |-> TRUE]>>
    \o (IF v = "gui" THEN <<[type |-> "Other", any |-> {"other"}, name |-> TRUE]>>
        ELSE <<>>)

RuleMatches(rule, line) ==
    /\ rule.any \subseteq line.kw
    /\ rule.name => "name" \in line.kw
    /\ line.colon

\* A relation rule that writes whenever it matches a non-empty value.
Mutant_RelationRule(d, rule, line) ==
    IF RuleMatches(rule, line) /\ line.value # ""
    THEN [d EXCEPT !.relation_name = line.value, !.relation_type = rule.type]
    ELSE d

\* if <keywords> in line and ':' in line: rel_part = clean(...);
\* if rel_part and not data['relation_name']: set name and type.
RelationRule(d, rule, line) ==
    IF RuleMatches(rule, line) /\ line.value # "" /\ d.relation_name = ""
    THEN [d EXCEPT !.relation_name = line.value, !.relation_type = rule.type]
    ELSE d

RECURSIVE RelationPass(_, _, _)
RelationPass(d, rules, line) ==
    IF rules = <<>> THEN d
    ELSE RelationPass(RelationRule(d, Head(rules), line), Tail(rules), line)

\* The name rule (headless 140-144), the age rule (173-177) and the gender
\* rule (179-186; GUI 312-317).
NameRule(d, line) ==
    IF /\ "name" \in line.kw /\ line.colon
       /\ "father" \notin line.kw /\ "husband" \notin line.kw
       /\ line.value # "" /\ d.name = ""
    THEN [d EXCEPT !.name = line.value] ELSE d

AgeRule(d, line) ==
    IF "age" \in line.kw /\ line.colon /\ line.num >= 0
    THEN [d EXCEPT !.age = ToString(line.num)] ELSE d

GenderRule(d, line) ==
    IF "gender" \notin line.kw THEN d
    ELSE IF "male" \in line.kw THEN [d EXCEPT !.gender = "Male"]
    ELSE IF "female" \in line.kw THEN [d EXCEPT !.gender = "Female"]
    ELSE d

\* The voter id is searched in the whole text before the lines are read.
parse_voter_id ==
    /\ calc.op = "parse" /\ calc.pc = "id"
    /\ calc' = [calc EXCEPT !.pc = "lines", !.i = 1,
                            !.data.voter_id = VoterId(calc.variant, calc.ids)]
    /\ UNCHANGED apart

\* One pass of `for line in text.split('\n')`.
parse_line ==
    /\ calc.op = "parse" /\ calc.pc = "lines"
    /\ IF calc.i > Len(calc.lines)
       THEN calc' = [calc EXCEPT !.pc = "done"]
       ELSE LET line == calc.lines[calc.i]
                d1 == NameRule(calc.data, line)
                d2 == RelationPass(d1, RelationRules(calc.variant), line)
                d3 == AgeRule(d2, line)
            IN  calc' = [calc EXCEPT !.i = @ + 1, !.data = GenderRule(d3, line)]
    /\ UNCHANGED apart

InitParse ==
    /\ Quiet
    /\ calc \in {[op |-> "parse", pc |-> "id", variant |-> v, ids |-> ids,
                  lines |-> ls, i |-> 0, data |-> NoCard] :
                    v \in Variants, ids \in IdTexts,
                    ls \in SeqsUpTo(LinePool, MaxLines)}

NextParse == parse_voter_id \/ parse_line

SpecParse == InitParse /\ [][NextParse]_vars

\* ------------------------------------------------------ the repair worker
\* enhanced_ocr_name_age_gender (headless) and enhanced_ocr_single_card (GUI):
\* a list of preprocessing approaches is tried in order on a crop or on the
\* whole image, one OCR call per approach.  calc holds the worker's position:
\* the loop (stage), the approach index k, the fields found so far, the
\* number of approaches started and how many of them raised.
RepairWorkers == {"name_age_gender", "single_card"}
RepairFields == {"name", "age", "gender"}

\* approaches: five entries at lines 217-223 of the headless worker, two at
\* lines 165-168 of enhanced_ocr_single_card.
Approaches(worker) ==
    IF worker = "name_age_gender"
    THEN <<"original", "contrast", "grayscale_sharp", "binarize", "scale_2x">>
    ELSE <<"contrast", "binarize">>

\* What one approach can yield: the transform or the OCR call raises, or the
\* text holds some of the fields.
Readings == {[raises |-> TRUE, found |-> {}]}
            \cup {[raises |-> FALSE, found |-> f] : f \in SUBSET RepairFields}

\* The fields a loop looks for: the top crop is read for the name, the bottom
\* crop for age and gender, the whole image for what is still missing
\* (lines 278-280); enhanced_ocr_single_card merges every key (184-186).
Wanted(c) ==
    CASE c.stage = "top"    -> c.need \cap {"name"}
      [] c.stage = "bottom" -> c.need \cap {"age", "gender"}
      [] c.stage = "full"   -> IF c.worker = "single_card" THEN RepairFields
                               ELSE c.still
      [] OTHER              -> {}

\* The break of the loops without its test: every approach of the whole-image
\* loop is tried.
Mutant_Break(c, result) ==
    CASE c.stage = "top"    -> "name" \in result
      [] c.stage = "bottom" -> (c.need \cap {"age", "gender"}) \subseteq result
      [] OTHER              -> FALSE

\* The break tests of the loops: lines 248-249, 271-272, 314-318 of the
\* headless worker, 189-191 of enhanced_ocr_single_card.
Break(c, result) ==
    CASE c.stage = "top"    -> "name" \in result
      [] c.stage = "bottom" -> (c.need \cap {"age", "gender"}) \subseteq result
      [] OTHER              -> c.need \subseteq result

\* Where the headless worker goes when a loop is left: the bottom loop runs
\* if age or gender is needed (line 254), the whole-image loop if a needed
\* field is still empty (lines 278-282).
AfterLoop(c, result) ==
    IF c.stage = "top" /\ c.need \cap {"age", "gender"} # {}
    THEN [c EXCEPT !.stage = "bottom", !.k = 1, !.result = result]
    ELSE IF c.stage \in {"top", "bottom"} /\ c.need \ result # {}
    THEN [c EXCEPT !.stage = "full", !.k = 1, !.result = result,
                   !.still = c.need \ result]
    ELSE [c EXCEPT !.stage = "done", !.result = result]

\* One pass of `for name, transform in approaches`: the approach is applied
\* and read; an exception is swallowed by `except: continue`.
Approach(c, reading) ==
    LET result == IF reading.raises THEN c.result
                  ELSE c.result \cup (reading.found \cap Wanted(c))
        tried  == [c EXCEPT !.calls = @ + 1,
                            !.raised = IF reading.raises THEN @ + 1 ELSE @]
        last   == c.k = Len(Approaches(c.worker))
    IN  IF (~reading.raises /\ Break(c, result)) \/ last
        THEN IF c.worker = "single_card"
             THEN [tried EXCEPT !.stage = "done", !.result = result]
             ELSE AfterLoop(tried, result)
        ELSE [tried EXCEPT !.k = @ + 1, !.result = result]

\* enhanced_ocr_name_age_gender, lines 229-252: the loop over the top crop.
repair_top ==
    /\ calc.op = "repair" /\ calc.stage = "top"
    /\ \E reading \in Readings : calc' = Approach(calc, reading)
    /\ UNCHANGED apart

\* enhanced_ocr_name_age_gender, lines 254-275: the loop over the bottom crop.
repair_bottom ==
    /\ calc.op = "repair" /\ calc.stage = "bottom"
    /\ \E reading \in Readings : calc' = Approach(calc, reading)
    /\ UNCHANGED apart

\* enhanced_ocr_name_age_gender, lines 277-323, and enhanced_ocr_single_card,
\* lines 176-193: the loop over the whole image.
repair_full ==
    /\ calc.op = "repair" /\ calc.stage = "full"
    /\ \E reading \in Readings : calc' = Approach(calc, reading)
    /\ UNCHANGED apart

\* The worker is called for a record with at least one empty tracked field
\* (cards_to_fix).  The headless worker starts with the loop its flags ask
\* for, enhanced_ocr_single_card with its only loop.
InitRepair ==
    /\ Quiet
    /\ calc \in {[op |-> "repair", worker |-> w, need |-> n,
                  stage |-> IF w = "single_card" THEN "full"
                            ELSE IF "name" \in n THEN "top" ELSE "bottom",
                  k |-> 1, result |-> {}, still |-> {}, calls |-> 0,
                  raised |-> 0] :
                    w \in RepairWorkers, n \in (SUBSET RepairFields) \ {{}}}

NextRepair == repair_top \/ repair_bottom \/ repair_full

SpecRepair == InitRepair /\ [][NextRepair]_vars

\* ------------------------------------------------- Phase 2 save interval
\* The counters of the Phase 2 result loop alone, for more cards than a run
\* of Spec holds: completed_ocr, the cards whose future is still to be
\* retrieved, and the results recorded in checkpoint.data since the last
\* checkpoint.save().  SaveEvery stands for the interval (500 headless, 200
\* in the GUI).
MaxOcr == 6

\* One retrieved future of the Phase 2 loop (headless lines 538-553, GUI
\* lines 905-936).  A result is recorded, counted, and saved with the others
\* when the count is a multiple of the interval; a retrieval that raises is
\* logged by the headless loop and also counted by the GUI loop.
Retrieved(c, raises) ==
    LET n == c.completed_ocr + 1 IN
    IF raises
    THEN [c EXCEPT !.left = @ - 1,
                   !.completed_ocr = IF c.variant = "gui" THEN n ELSE @]
    ELSE [c EXCEPT !.left = @ - 1,
                   !.completed_ocr = n,
                   !.unsaved = IF n % SaveEvery = 0 THEN 0 ELSE @ + 1]

progress_result ==
    /\ calc.op = "progress" /\ calc.left > 0
    /\ calc' = Retrieved(calc, FALSE)
    /\ UNCHANGED apart

progress_raise ==
    /\ calc.op = "progress" /\ calc.left > 0
    /\ calc' = Retrieved(calc, TRUE)
    /\ UNCHANGED apart

\* completed_ocr = len(completed_indices): the results a resumed run finds in
\* the checkpoint (headless line 528, GUI line 872).
InitProgress ==
    /\ Quiet
    /\ calc \in {[op |-> "progress", variant |-> v, completed_ocr |-> done,
                  left |-> todo, unsaved |-> 0] :
                    v \in Variants, done \in 0..MaxOcr, todo \in 1..MaxOcr}

NextProgress == progress_result \/ progress_raise

SpecProgress == InitProgress /\ [][NextProgress]_vars

\* ------------------------------------------------------------------ claims
\* The checkpoint as persisted: what a load of the checkpoint path would see.
Persisted == IF file.kind = "json" THEN file.data ELSE DefaultData

Indices(cards) == {c[2] : c \in cards}

\* C1: the persisted phase only moves 0 -> 1 -> 2 -> 3 in that order.  From
\* one snapshot of the checkpoint path to the next the phase stays or grows
\* by one, the first snapshot of a checkpoint records phase 0 or 1, and the
\* export step (building the workbook, then deleting the checkpoint) is only
\* reached with phase 3 on disk.
C1_PhaseOrder ==
    /\ [][/\ (file.kind = "json" /\ file'.kind = "json")
               => file'.data.phase \in {file.data.phase, file.data.phase + 1}
          /\ (file.kind = "none" /\ file'.kind = "json")
               => file'.data.phase \in {0, 1}
          /\ excel' # excel => file.kind = "json" /\ file.data.phase = 3]_vars
    /\ [](run.pc \in {"at4", "finish"}
            => file.kind = "json" /\ file.data.phase = 3)

\* A resumed run stands at the deletion of a checkpoint that records phase 3.
C1_Witness ==
    run.pc = "finish" /\ run.resume_mode /\ file.kind = "json" /\ file.data.phase = 3

\* The units the orchestrator has handed to a worker, or will hand to one
\* before the phase ends.
PendingPdfs ==
    CASE variant = "gui" /\ run.pc = "p1loop" -> run.futures
      [] variant = "headless" /\ run.pc = "at1" ->
             Range(PdfsToExtract(run.pdf_card_info))
      [] OTHER -> {}
PendingCards(r) ==
    IF r.pc = "p2loop" THEN Indices(r.futures \cup Range(r.todo)) ELSE {}

\* C2: a run that loads a checkpoint resumes at the recorded phase and works
\* on the remainder only.  It enters the phase after the recorded one;
\* Phase 1 hands to extraction exactly the PDFs without an entry in the
\* persisted extracted_pdfs; Phase 2 submits exactly the cards of all_cards
\* whose index has no entry in the persisted ocr_results; and no unit with a
\* persisted result is ever pending again.
C2_ResumeRemainder ==
    /\ [][(run.pc = "idle" /\ run'.pc # "idle" /\ run'.resume_mode)
            => /\ run'.current_phase = file.data.phase
               /\ PhaseOfPc(run'.pc) = file.data.phase + 1]_vars
    /\ [][(variant = "gui" /\ run.pc = "at1" /\ run'.pc # "at1"
             /\ run'.pc # "idle")
            => run'.futures = Pdfs \ Keys(Persisted.extracted_pdfs)]_vars
    /\ [][(variant = "headless" /\ run.pc = "at1" /\ run'.pc = "at1")
            => Keys(run'.pdf_card_info) \ Keys(run.pdf_card_info)
                 \subseteq Pdfs \ Keys(Persisted.extracted_pdfs)]_vars
    /\ [][(run.pc = "at2" /\ run'.pc \in {"p2loop", "p2end"})
            => PendingCards(run') = Indices(Range(Persisted.all_cards))
                                      \ CompletedIndices(Persisted)]_vars
    /\ [](PendingPdfs \cap Keys(Persisted.extracted_pdfs) = {})
    /\ [](PendingCards(run) \cap CompletedIndices(Persisted) = {})

\* A resumed run is in Phase 2 with some results on disk and some cards left.
C2_Witness ==
    /\ run.resume_mode /\ run.pc = "p2loop"
    /\ CompletedIndices(Persisted) # {}
    /\ run.futures # {}

\* ---- the reference run: every unit handled once, in the order of the sorted
\* PDF list, with no stop and no failure of the pool.
SortedInfo(src) == [p \in 1..NumPdfs |-> ExtractCards(src, p)]
ExpectedCards(src) == BuildCards(src, SortedInfo(src), <<>>)

\* The OCR table of a card list: one entry per index, from the worker alone.
ExpectedOcr(v, cards) ==
    [i \in Indices(Range(cards)) |->
        LET r == ocr_single_card(v, cards[i + 1]) IN <<r[2], r[3], r[4]>>]

\* The entry of index i after its repair task has been retrieved.
RepairedEntry(v, cards, t, i) ==
    IF v = "headless"
    THEN LET fixes == {f \in CardsToFixHeadless(cards, t, {}) : f[2] = i} IN
           IF fixes = {} THEN t[i]
           ELSE LET r == enhanced_ocr_name_age_gender(CHOOSE f \in fixes : TRUE) IN
                  IF r[2] = None THEN t[i]
                  ELSE <<t[i][1], MergeHeadless(t[i][2], r[2]), t[i][3]>>
    ELSE LET fixes == {f \in CardsToFixGui(cards, t, {}) : f[2] = i} IN
           IF fixes = {} THEN t[i]
           ELSE LET r == enhanced_ocr_age_gender(CHOOSE f \in fixes : TRUE) IN
                  IF r[2] = None THEN t[i]
                  ELSE <<t[i][1], MergeGui(t[i][2], r[2]), t[i][3]>>

ExpectedFinal(v, cards) ==
    LET t == ExpectedOcr(v, cards) IN
    [i \in DOMAIN t |-> RepairedEntry(v, cards, t, i)]

\* The workbook of the reference run.
OnePassRows(v, src) ==
    LET t == ExpectedFinal(v, ExpectedCards(src)) IN RowsFrom(t, DOMAIN t)

\* C3: idempotent resume.  With no pool failure, a run that is interrupted
\* after phase 2 was recorded and then resumed exports the same Record table
\* (same indices, same field values) as a run that goes through in one pass.
C3_IdempotentResume ==
    (excel.saved /\ faults = 0 /\ run.resume_mode /\ run.current_phase = 2)
        => excel.rows = OnePassRows(variant, source)

\* C4: whenever the recorded phase is at least 2, every index of all_cards has
\* an entry in ocr_results, also when the retrieval of a result raised.
C4_AllCardsAttempted ==
    (file.kind = "json" /\ file.data.phase >= 2)
        => Indices(Range(file.data.all_cards)) \subseteq CompletedIndices(file.data)

\* C5: whenever the recorded phase is at least 1, every PDF of the folder has
\* an entry in extracted_pdfs, also when the retrieval of a result raised.
C5_AllPdfsAttempted ==
    (file.kind = "json" /\ file.data.phase >= 1)
        => Keys(file.data.extracted_pdfs) = Pdfs

\* C9: the global index of every card is the same in every execution: with
\* every PDF extracted, the recorded card list is the one the sorted PDF list
\* gives, whatever the completion order and however Phase 1 was interrupted.
C9_DeterministicIndices ==
    (file.kind = "json" /\ file.data.phase >= 1 /\ faults = 0)
        => file.data.all_cards = ExpectedCards(source)

\* C10: results are keyed by index.  For the card list of the run, every
\* entry of the OCR table is the worker's result for the card of that index
\* (after Phase 3's retrieval of its repair: the repaired entry), in the
\* orchestrator's table and in the checkpoint alike, whatever order the
\* pool's tasks complete in; with no pool failure the table at the end of
\* Phase 2 covers every index and the table after Phase 3 is the one table
\* the card list determines.
C10_IndexKeyed ==
    PhaseOfPc(run.pc) >= 2 /\ run.pc # "at2" =>
        LET cards == run.all_cards
            t     == get_ocr_results(data)
            done  == Range(data.enhanced_ocr_done)
        IN  /\ run.ocr_results = t
            /\ DOMAIN t \subseteq Indices(Range(cards))
            /\ \A i \in DOMAIN t :
                 t[i] = IF i \in done THEN ExpectedFinal(variant, cards)[i]
                        ELSE ExpectedOcr(variant, cards)[i]
            /\ (faults = 0 /\ PhaseOfPc(run.pc) >= 3)
                 => DOMAIN t = Indices(Range(cards))
            /\ (faults = 0 /\ run.pc = "at4")
                 => t = ExpectedFinal(variant, cards)

\* A result was retrieved while a card of a lower index is still outstanding:
\* the pool completed out of submission order.
C10_Witness ==
    /\ run.pc = "p2loop"
    /\ \E c \in run.futures : \E i \in DOMAIN run.ocr_results : c[2] < i

\* C8: a stop requested while batch_extract_thread is in Phase 1, 2 or 3 ends
\* the run as a stopped run whose saved checkpoint records the last completed
\* phase (0, 1 or 2) and holds every result the orchestrator recorded (stated
\* for runs in which no pool result raised).
C8_StopSavesCompletedPhase ==
    (variant = "gui" /\ run.pc = "idle" /\ stop_at \in 1..3 /\ faults = 0
       /\ run.outcome \in {"stopped", "completed"})
        => /\ run.outcome = "stopped"
           /\ file.kind = "json"
           /\ file.data.phase = stop_at - 1
           /\ Range(run.pdf_card_info) \subseteq Range(file.data.extracted_pdfs)
           /\ \A i \in DOMAIN run.ocr_results :
                /\ StrKey(i) \in DOMAIN file.data.ocr_results
                /\ file.data.ocr_results[StrKey(i)] = run.ocr_results[i]

\* C6: CheckpointManager.save is atomic with respect to crashes, in every
\* pipeline variant: when the process dies inside save, the checkpoint path
\* holds the complete previous snapshot or the complete new one.
C6_SaveAtomic ==
    (sv.variant \in SaveVariants /\ sv.pc = "dead")
        => sv.path \in {sv.prev, Full(sv.n)}

\* C7: when the checkpoint file is unreadable, not JSON, or lacks 'phase',
\* the load fails and the run starts at phase 0 with the empty
\* CheckpointState: nothing of the bad file is in the state it goes on with.
C7_BadCheckpointDiscarded ==
    [][(run.pc = "idle" /\ Bad(file) /\ run' # run)
         => /\ run'.pc = "at1" /\ run'.current_phase = 0 /\ ~run'.resume_mode
            /\ data' = DefaultData]_vars

\* Entry k of a card list carries index k - 1 and the PDF of its file.
Dense(cards) ==
    \A k \in 1..Len(cards) : cards[k][2] = k - 1 /\ cards[k][3] = cards[k][1][1]

\* C11: global indices are dense, 0-based and stable.  Every card list the
\* checkpoint or the orchestrator holds has entry i carrying index i, so
\* all_cards[global_idx] is the card of that index; once phase 1 is recorded
\* no later save changes the list, and the list a run works on in Phase 2 and
\* after is the recorded one.
C11_DenseStableIndices ==
    /\ [](Dense(Persisted.all_cards) /\ Dense(data.all_cards)
            /\ Dense(run.all_cards))
    /\ []((PhaseOfPc(run.pc) >= 2 /\ run.pc # "at2" /\ file.kind = "json")
            => run.all_cards = file.data.all_cards)
    /\ [][(file.kind = "json" /\ file'.kind = "json" /\ file.data.phase >= 1)
            => file'.data.all_cards = file.data.all_cards]_vars

\* A resumed run is in Phase 3 on a list with cards of two PDFs.
C11_Witness ==
    /\ run.resume_mode /\ PhaseOfPc(run.pc) = 3
    /\ \E a, b \in Range(run.all_cards) : a[3] # b[3]

\* C12: partial records are never discarded.  The exported table has exactly
\* one row for every index of all_cards, in ascending index order: row k is
\* the record of index k - 1, with its fields complete, partly empty, or all
\* empty when OCR failed.
C12_OneRowPerCard ==
    (run.pc = "finish" /\ excel.saved) =>
        /\ Len(excel.rows) = Len(data.all_cards)
        /\ \A k \in 1..Len(excel.rows) :
             /\ excel.rows[k].pdf_name = data.all_cards[k][3]
             /\ StrKey(k - 1) \in DOMAIN data.ocr_results
             /\ excel.rows[k].s_no = data.ocr_results[StrKey(k - 1)][1]

\* The cards whose OCR or parsing raises inside the worker.
FailingCards(cards) == {c \in Range(cards) : OcrData(c[1]) = None}

\* C13: a task-level failure is absorbed.  For a card whose OCR raises inside
\* ocr_single_card the orchestrator stores (label, None, pdf_name) under the
\* card's own index, in its table and in the checkpoint; storing a result
\* takes exactly that task out of the outstanding ones; and Phase 2 ends
\* with an entry for every card, failing or not, but for those whose
\* retrieval raised in the orchestrator.
C13_TaskFailureAbsorbed ==
    /\ []((PhaseOfPc(run.pc) >= 2 /\ run.pc # "at2") =>
            \A c \in FailingCards(run.all_cards) :
                c[2] \in DOMAIN run.ocr_results =>
                    /\ run.ocr_results[c[2]][2] = None
                    /\ run.ocr_results[c[2]][3] = c[3]
                    /\ variant = "headless"
                         => run.ocr_results[c[2]][1] = StrKey(c[2])
                    /\ data.ocr_results[StrKey(c[2])] = run.ocr_results[c[2]])
    /\ [][(run.pc = "p2loop" /\ ~stop_requested /\ run' # run
             /\ faults' = faults /\ run'.pc \in {"p2loop", "p2end"})
            => \E c \in run.futures :
                 /\ DOMAIN run'.ocr_results = DOMAIN run.ocr_results \cup {c[2]}
                 /\ run.futures \ {c} \subseteq run'.futures]_vars
    /\ [](run.pc = "at3"
            => /\ DOMAIN run.ocr_results \subseteq Indices(Range(run.all_cards))
               /\ Cardinality(DOMAIN run.ocr_results)
                    >= Len(run.all_cards) - faults)

\* Phase 2 has ended with a null record next to records with a field map.
C13_Witness ==
    /\ run.pc = "at3" /\ faults = 0
    /\ \E i, j \in DOMAIN run.ocr_results :
         run.ocr_results[i][2] = None /\ run.ocr_results[j][2] # None /\ i < j

\* C14: a unit-level failure is absorbed.  A PDF with a page that cannot be
\* rendered is recorded with card count 0 and no directory, none of its card
\* images (written before the failure or not) enters all_cards, and the
\* extraction goes on: when phase 1 is recorded every PDF, the failed one
\* included, has its entry, but for those whose pool retrieval raised.
C14_UnitFailureAbsorbed ==
    /\ \A e \in Range(run.pdf_card_info) \cup Range(data.extracted_pdfs)
                  \cup Range(Persisted.extracted_pdfs) :
           e[1] = source.corrupt => e[2] = 0 /\ e[3] = 0
    /\ \A c \in Range(run.all_cards) \cup Range(data.all_cards)
                  \cup Range(Persisted.all_cards) :
           c[3] # source.corrupt /\ c[1][1] # source.corrupt
    /\ (file.kind = "json" /\ file.data.phase >= 1)
           => Cardinality(Keys(file.data.extracted_pdfs)) >= NumPdfs - faults

\* Phase 1 is recorded for a folder whose first PDF failed after writing card
\* images and whose second PDF gave cards.
C14_Witness ==
    /\ file.kind = "json" /\ file.data.phase >= 1
    /\ source.corrupt = 1 /\ CardsOf(source, 1) > 0
    /\ <<1, 0, 0>> \in Range(file.data.extracted_pdfs)
    /\ \E c \in Range(file.data.all_cards) : c[3] = 2

\* C15 as claimed: the checkpoint path is unlinked only after the export
\* workbook has been saved; no stop, failure, load or phase transition
\* removes it.
C15_DeletedOnlyAfterExport ==
    [][(file.kind # "none" /\ file'.kind = "none")
         => (excel.saved /\ run.pc = "finish")]_vars

\* C15 as the code has it: the checkpoint path is unlinked only (1) after the
\* export workbook has been saved, (2) by the GUI's load() when the file is
\* not valid JSON, or (3) by the GUI before a run for which the user declined
\* to resume; no stop, task failure, unit failure, successful load or phase
\* transition removes it.
C15_DeletedOnlyAfterExportOrDiscard ==
    [][(file.kind # "none" /\ file'.kind = "none")
         => \/ excel.saved /\ run.pc = "finish"
            \/ /\ variant = "gui" /\ run.pc = "idle"
               /\ run'.pc = "at1" /\ ~run'.resume_mode
               /\ run'.current_phase = 0 /\ data' = DefaultData]_vars

\* A resumed run has completed and removed the checkpoint that survived the
\* interruption before it.
C15_Witness ==
    /\ run.pc = "idle" /\ run.outcome = "completed" /\ run.resume_mode
    /\ excel.saved /\ file.kind = "none"

\* What a new process loads right after this one has saved.
Reloaded ==
    IF variant = "headless" THEN LoadHeadless(Save(data)) ELSE LoadGui(Save(data))

C17_CooperativeCancel ==
    /\ [][(pool.kind # "none" /\ pool'.kind # "none" /\ pool'.observed)
            => /\ Submitted(pool') = Submitted(pool)
               /\ pool'.recorded = pool.recorded]_vars
    /\ [][(pool.kind # "none" /\ pool'.kind # "none")
            => \A t \in TasksIn(pool, {"running"}) :
                  pool'.task[t] \in {"running", "done"}]_vars
    /\ []((pool.kind # "none" /\ pool.pc = "closed")
            => TasksIn(pool, {"queued", "running"}) = {})

\* The pool closed after a stop that found a task running (it is done now,
\* its result not recorded), others cancelled and others never submitted.
C17_Witness ==
    /\ pool.kind = "gui_ocr" /\ pool.pc = "closed" /\ pool.observed
    /\ TasksIn(pool, {"done"}) \ pool.recorded # {}
    /\ TasksIn(pool, {"cancelled"}) # {}
    /\ TasksIn(pool, {"new"}) # {}
    /\ pool.recorded # {}

\* C18: submission to the OCR pool is chunked in every variant that runs
\* Phase 2 on a process pool: the tasks submitted and not yet retrieved never
\* number more than batch_size.
C18_ChunkedSubmission ==
    pool.kind \in {"headless_ocr", "gui_ocr"} =>
        Cardinality(Futures(pool)) <= batch_size

\* C19: only one pipeline run at a time.  While one run_processor invocation
\* is active (from start_processing until its process has exited) no second
\* one is started: at most one invocation is active in any state.
C19_SingleRun == ui.on => Cardinality(ActiveRuns(ui)) <= 1

\* C20: the exit status of the headless command tells the three outcomes
\* apart: two finished invocations with different outcomes (no input found,
\* completed, interrupted) never have the same exit status.
C20_ExitStatusDistinct ==
    cli.pc # "none" =>
        \A i, j \in Invocations :
            (/\ cli.inv[i].pc = "exited" /\ cli.inv[j].pc = "exited"
             /\ Outcome(cli.inv[i]) # Outcome(cli.inv[j]))
                => cli.inv[i].status # cli.inv[j].status

\* The place of a cell in the row-major scan of one PDF, from 0.
ScanPos(c) == ((c[1] - 3) * num_rows + c[2]) * num_cols + c[3]
Before(a, b) == ScanPos(a) < ScanPos(b)

\* C21: segmentation numbering.  The cells of a PDF are scanned page by page
\* in row-major order; the kept cells carry the numbers 1..card_count with
\* no gap or repeat, in scan order; exactly the cells brighter than 252 are
\* left out; a finished scan has numbered every other cell.
C21_SegmentNumbering ==
    calc.op = "seg" =>
        LET now == ScanPos(<<calc.page, calc.row, calc.col>>) IN
        /\ DOMAIN calc.files = 1..calc.card_count
        /\ \A n \in 2..calc.card_count : Before(calc.files[n - 1], calc.files[n])
        /\ \A n \in 1..calc.card_count :
              /\ ScanPos(calc.files[n]) \in 0..(now - 1)
              /\ calc.files[n] \notin calc.skipped
        /\ \A c \in calc.skipped : ScanPos(c) \in 0..(now - 1)
        /\ calc.card_count + Cardinality(calc.skipped) = now
        /\ calc.pc = "returned" => now = (calc.num_pages - 4) * num_rows * num_cols

\* A PDF with one page of cards, 2 blank cells and 28 numbered 1 to 28, the
\* blank ones not at the end.
C21_Witness ==
    /\ calc.op = "seg" /\ calc.pc = "returned" /\ calc.num_pages = 5
    /\ Cardinality(calc.skipped) = 2
    /\ DOMAIN calc.files = 1..28
    /\ \E c \in calc.skipped : Before(c, calc.files[28])

\* C22: partition correctness of the aggregator.  The N voterid entities
\* give N records; the records of one (page, column), in ascending y, have
\* extents that each end where the next begins; and every other entity whose
\* y lies inside the extent of record i is assigned to record i.
C22_Partition ==
    (calc.op = "agg" /\ calc.pc # "anchors") =>
        LET cards == calc.cards
            n     == Len(cards)
        IN  /\ n = Cardinality({k \in 1..Len(calc.entities) :
                                   calc.entities[k].type = "voterid"})
            /\ \A j, k \in 1..n :
                  (j < k /\ cards[j].page = cards[k].page /\ cards[j].col = cards[k].col)
                     => /\ cards[j].y_start <= cards[k].y_start
                        /\ cards[j].y_end <= cards[k].y_start
                        /\ (\A m \in (j + 1)..(k - 1) :
                               cards[m].page # cards[j].page \/ cards[m].col # cards[j].col)
                              => cards[j].y_end = cards[k].y_start
            /\ \A q \in 1..Len(calc.best), k \in 1..n :
                  LET e == calc.entities[q] IN
                  (/\ e.type # "voterid"
                   /\ cards[k].page = e.page
                   /\ cards[k].col = (IF e.x < 33 THEN 0 ELSE IF e.x < 66 THEN 1 ELSE 2)
                   /\ cards[k].y_start <= e.y /\ e.y < cards[k].y_end)
                     => calc.best[q] = k

\* Anchors at y = 0.10 and y = 0.30 in one column and a name at y = 0.15:
\* the name is in the first record, whose extent is [0.10, 0.30).
C22_Witness ==
    /\ calc.op = "agg" /\ calc.pc = "done" /\ Len(calc.cards) = 2
    /\ calc.cards[1].y_start = 10 /\ calc.cards[1].y_end = 30
    /\ calc.cards[2].y_start = 30 /\ calc.cards[1].col = calc.cards[2].col
    /\ calc.cards[1].name = "n1" /\ calc.cards[2].name = ""
    /\ Len(calc.entities) = 3 /\ calc.entities[1].type = "name"

\* The (page, column bucket) of an entity: bucket 0 for x < 0.33, 1 for
\* x < 0.66, 2 otherwise.
Bucket(e) == <<e.page, IF e.x < 33 THEN 0 ELSE IF e.x < 66 THEN 1 ELSE 2>>

\* C23: an entity that is not an anchor changes at most the one record it is
\* assigned to, and that record is on its own (page, column bucket); an
\* entity whose bucket holds no anchor is dropped and changes no record; an
\* entity whose bucket holds an anchor is assigned to a record.
C23_OwnColumnOnly ==
    /\ []((calc.op = "agg" /\ calc.pc # "anchors") =>
            \A q \in 1..Len(calc.best) :
                LET e == calc.entities[q]
                    b == calc.best[q]
                    anchored == \E k \in 1..Len(calc.cards) :
                                   <<calc.cards[k].page, calc.cards[k].col>> = Bucket(e)
                IN  /\ e.type = "voterid" => b = 0
                    /\ e.type # "voterid" => (b # 0 <=> anchored)
                    /\ b # 0 => <<calc.cards[b].page, calc.cards[b].col>> = Bucket(e))
    /\ [][(calc.op = "agg" /\ calc.pc = "assign" /\ calc'.pc = "assign")
            => LET b == calc'.best[Len(calc'.best)] IN
               \A k \in 1..Len(calc.cards) : k # b => calc'.cards[k] = calc.cards[k]]_vars

\* A name in a column without anchors was dropped, a name in a column with
\* an anchor was assigned, and the records show only the second.
C23_Witness ==
    /\ calc.op = "agg" /\ calc.pc = "done" /\ Len(calc.cards) = 1
    /\ \E q, r \in 1..Len(calc.best) :
          /\ calc.entities[q].type = "name" /\ calc.best[q] = 0
          /\ calc.entities[r].type = "name" /\ calc.best[r] = 1
          /\ calc.cards[1].name = calc.entities[r].text

\* The fields of a record that reach the workbook.
Fields(card) ==
    [voter_id |-> card.voter_id, serial_no |-> card.serial_no, name |-> card.name,
     relation_name |-> card.relation_name, house_no |-> card.house_no,
     age |-> card.age, gender |-> card.gender, page |-> card.page, col |-> card.col]

Reorders(n) == {f \in [1..n -> 1..n] : \A i, j \in 1..n : f[i] = f[j] => i = j}

\* C24: the aggregator treats its input as unordered.  For every permutation
\* of the entity list the call returns the same records with the same field
\* values.
C24_OrderIndependent ==
    (calc.op = "agg" /\ calc.pc = "done") =>
        \A f \in Reorders(Len(calc.entities)) :
            LET es == [i \in 1..Len(calc.entities) |-> calc.entities[f[i]]] IN
            {Fields(c) : c \in Range(group_entities_to_cards(es))}
                = {Fields(c) : c \in Range(calc.cards)}

\* C25: age bound enforcement.  A parsed record's age is empty or a number
\* from 18 to 120: an age line with 17 or 121 leaves the field empty, one
\* with 18 or 120 is stored.
C25_AgeBounds ==
    calc.op = "parse" =>
        /\ calc.data.age \in {""} \cup {ToString(n) : n \in 18..120}
        /\ \A k \in 1..(calc.i - 1) :
              (k <= Len(calc.lines) /\ calc.lines[k].num \in 18..120
               /\ \A j \in (k + 1)..(calc.i - 1) : calc.lines[j].num < 0)
                 => calc.data.age = ToString(calc.lines[k].num)

\* C26: the female keyword has priority.  After a gender line that holds
\* both the male and the female keyword the record's gender is Female.
C26_FemalePriority ==
    (calc.op = "parse" /\ calc.pc = "lines" /\ calc.i > 1) =>
        LET line == calc.lines[calc.i - 1] IN
        {"gender", "male", "female"} \subseteq line.kw => calc.data.gender = "Female"

\* The relation rules that yield a value on a line, in rule order.
Yields(v, line) ==
    SelectSeq(RelationRules(v), LAMBDA r :
        /\ r.any \subseteq line.kw /\ (r.name => "name" \in line.kw)
        /\ line.colon /\ line.value # "")

\* C27: relation fields are mutually exclusive and first match wins.
\* relation_type is non-empty exactly when relation_name is; both come from
\* the first relation rule, in line order and then rule order, that yields
\* a non-empty value; once set they are never changed by a later line.
C27_RelationFirstMatch ==
    /\ [](calc.op = "parse" =>
            LET read == {k \in 1..Len(calc.lines) :
                            k < calc.i /\ Yields(calc.variant, calc.lines[k]) # <<>>}
            IN  /\ (calc.data.relation_type = "") <=> (calc.data.relation_name = "")
                /\ read = {} => calc.data.relation_name = ""
                /\ read # {} =>
                      LET line == calc.lines[Lowest(read)] IN
                      /\ calc.data.relation_name = line.value
                      /\ calc.data.relation_type = Head(Yields(calc.variant, line)).type)
    /\ [][(calc.op = "parse" /\ calc'.op = "parse" /\ calc.data.relation_name # "")
            => /\ calc'.data.relation_name = calc.data.relation_name
               /\ calc'.data.relation_type = calc.data.relation_type]_vars

\* A husband line followed by a father line: the record keeps the husband.
C27_Witness ==
    /\ calc.op = "parse" /\ calc.pc = "done" /\ Len(calc.lines) = 2
    /\ calc.lines[1].kw = {"husband"} /\ "father" \in calc.lines[2].kw
    /\ calc.lines[2].value = "F"
    /\ calc.data.relation_type = "Husband" /\ calc.data.relation_name = "H"

\* C28: identifier extraction.  voter_id is the first candidate in text order
\* whose length is at least 9 (empty when there is none); a shorter candidate
\* earlier in the text does not hide a later one.
C28_FirstLongCandidate ==
    (calc.op = "parse" /\ calc.pc # "id") =>
        LET ok == SelectSeq(calc.ids, LAMBDA c : c.len >= 9) IN
        calc.data.voter_id = IF ok = <<>> THEN "" ELSE Head(ok).text

\* The record of global index i as Phase 2 left it lacks name, age or gender,
\* or has no field map at all.
LackedAfterPhase2(i) ==
    LET d == OcrData(run.all_cards[i + 1][1]) IN
    d = None \/ d.name = "" \/ d.age = "" \/ d.gender = ""

\* C29: Phase 3 retries every record with a missing optional field.  Once
\* phase 3 is committed, every global index whose record lacked name, age or
\* gender at the end of Phase 2 (a null field map included) is listed in
\* enhanced_ocr_done.
C29_RetryEveryIncomplete ==
    (run.pc = "at4" /\ data.phase = 3) =>
        \A i \in DOMAIN run.ocr_results :
            (i < Len(run.all_cards) /\ LackedAfterPhase2(i))
                => i \in Range(data.enhanced_ocr_done)

\* The fields Phase 3 looks at: name, age and gender in the headless variant
\* (lines 574-576), age and gender in the GUI (lines 970-971).
TrackedEmpty(v, d) ==
    \/ d.age = "" \/ d.gender = ""
    \/ (v = "headless" /\ d.name = "")

\* The enhanced_ocr_done list of the checkpoint file, empty without a file.
PersistedDone ==
    IF file.kind = "json" THEN Range(file.data.enhanced_ocr_done) ELSE {}

\* C30: Phase 3 skips work that is not needed.  Every task submitted to the
\* repair worker is for a record with a field map in which a tracked field
\* is empty and whose global index is not in the persisted enhanced_ocr_done
\* set; a fully populated record is never submitted, in a first run or after
\* a resume.
C30_SkipUnneeded ==
    run.pc = "p3loop" =>
        \A fix \in run.futures :
            LET i == fix[2] IN
            /\ i \in DOMAIN run.ocr_results
            /\ run.ocr_results[i][2] # None
            /\ TrackedEmpty(variant, run.ocr_results[i][2])
            /\ i \notin PersistedDone
            /\ i \notin Range(data.enhanced_ocr_done)

\* A resumed run in Phase 3: an index handled before the restart is in the
\* persisted list and is not submitted again although its record still lacks
\* a tracked field, while another record is submitted.
C30_Witness ==
    /\ run.pc = "p3loop" /\ run.resume_mode /\ run.completed = 0
    /\ run.futures # {}
    /\ \E i \in PersistedDone :
          /\ i \in DOMAIN run.ocr_results
          /\ run.ocr_results[i][2] # None
          /\ TrackedEmpty(variant, run.ocr_results[i][2])
          /\ \A fix \in run.futures : fix[2] # i

\* The loops of the repair worker in the order they are written.
StageRank(stage) ==
    CASE stage = "top" -> 1 [] stage = "bottom" -> 2 [] stage = "full" -> 3
      [] OTHER -> 4

\* C31: the repair worker tries its transforms in a fixed order with early
\* exit.  Once every originally-missing field has been found the worker is
\* done and starts no further transform or OCR call; approaches are taken one
\* after the other and the loops in the order top, bottom, whole image; an
\* approach that raises changes nothing and is followed by the next approach
\* of the same loop.
C31_EarlyExit ==
    /\ [](calc.op = "repair" =>
            (calc.need \subseteq calc.result => calc.stage = "done"))
    /\ [][(calc.op = "repair" /\ calc'.op = "repair") =>
            /\ calc.need \subseteq calc.result => calc'.calls = calc.calls
            /\ calc'.calls = calc.calls + 1
            /\ IF calc'.stage = calc.stage
               THEN calc'.k = calc.k + 1
               ELSE /\ StageRank(calc'.stage) > StageRank(calc.stage)
                    /\ calc'.stage # "done" => calc'.k = 1
            /\ calc'.raised > calc.raised =>
                 /\ calc'.result = calc.result
                 /\ calc.k < Len(Approaches(calc.worker)) =>
                      calc'.stage = calc.stage /\ calc'.k = calc.k + 1]_vars

\* The headless worker asked for all three fields: one approach raised, the
\* fields were found all the same and the worker stopped well before its
\* fifteen possible OCR calls.
C31_Witness ==
    /\ calc.op = "repair" /\ calc.worker = "name_age_gender"
    /\ calc.stage = "done" /\ calc.need = RepairFields
    /\ calc.result = RepairFields
    /\ calc.raised >= 1 /\ calc.calls = 3

\* C32: the effect of kill_process on the status file.  Every call leaves
\* processing = False, current_constituency = None and pid = None; with
\* reset_history = False the queue, completed and errors lists are what they
\* were, with reset_history = True all three are empty.
C32_KillFrame ==
    [][\A reset_history \in BOOLEAN :
         KillProcess(reset_history) =>
            /\ ~ui'.status.processing
            /\ ui'.status.current_constituency = 0
            /\ ui'.status.pid = 0
            /\ IF reset_history
               THEN /\ ui'.status.queue = <<>>
                    /\ ui'.status.completed = <<>>
                    /\ ui'.status.errors = <<>>
               ELSE /\ ui'.status.queue = ui.status.queue
                    /\ ui'.status.completed = ui.status.completed
                    /\ ui'.status.errors = ui.status.errors]_vars

\* Kill was pressed while a process ran and the lists were not empty: the
\* process has exited, the status is idle and the three lists are still there.
C32_Witness ==
    /\ ui.on /\ ui.message = "preserved"
    /\ \E r \in DOMAIN ui.runs : ui.runs[r].pc = "exited"
    /\ ~ui.status.processing /\ ui.status.pid = 0
    /\ ui.status.current_constituency = 0
    /\ ui.status.queue # <<>> /\ ui.status.completed # <<>>
    /\ ui.status.errors # <<>>

\* The fields of a record.
FieldNames == {"voter_id", "name", "age", "gender"}

\* new keeps every field the Phase 2 reading of the card at path had.
KeepsPhase2(path, new) ==
    LET d == OcrData(path) IN
    d # None =>
        /\ new # None
        /\ \A f \in FieldNames : d[f] # "" => new[f] = d[f]

\* The k-th smallest key of a table.
KeyAt(keys, k) == CHOOSE i \in keys : Cardinality({j \in keys : j < i}) = k - 1

\* C33: Phase 3 only fills gaps.  From Phase 3 on, every field of every
\* record that was non-empty at the end of Phase 2 has the same value in the
\* orchestrator's table, in the checkpoint and in the exported row, whatever
\* the repair worker returned and whatever stops and resumes occurred.
C33_OnlyFillsGaps ==
    PhaseOfPc(run.pc) >= 3 =>
        /\ \A i \in DOMAIN run.ocr_results :
             i < Len(run.all_cards) =>
                /\ KeepsPhase2(run.all_cards[i + 1][1], run.ocr_results[i][2])
                /\ StrKey(i) \in DOMAIN data.ocr_results =>
                     KeepsPhase2(run.all_cards[i + 1][1],
                                 data.ocr_results[StrKey(i)][2])
        /\ (run.pc = "finish" /\ excel.saved) =>
             LET keys == DOMAIN run.ocr_results IN
             /\ Len(excel.rows) = Cardinality(keys)
             /\ \A k \in 1..Len(excel.rows) :
                  LET i == KeyAt(keys, k)
                      d == OcrData(run.all_cards[i + 1][1])
                  IN  (i < Len(run.all_cards) /\ d # None) =>
                        \A f \in FieldNames :
                           d[f] # "" => excel.rows[k].fields[f] = d[f]

\* An exported GUI run in which the repair worker returned an age for a
\* record that already had one: the record was repaired and still shows the
\* age Phase 2 read.
C33_Witness ==
    /\ variant = "gui" /\ run.pc = "finish" /\ excel.saved
    /\ \E i \in Range(data.enhanced_ocr_done) :
         /\ i \in DOMAIN run.ocr_results /\ i < Len(run.all_cards)
         /\ EnhRead(run.all_cards[i + 1][1]) # None
         /\ EnhRead(run.all_cards[i + 1][1]).age = "enh"
         /\ run.ocr_results[i][2] # None
         /\ run.ocr_results[i][2].age = "ocr"
         /\ \E k \in 1..Len(excel.rows) :
              KeyAt(DOMAIN run.ocr_results, k) = i
                 /\ excel.rows[k].fields.age = "ocr"

\* The fixed span of a card slot, 0.10 of the page height (line 88).
FixedSpan == 10

\* C34 as stated: step 3 of the aggregator only tightens.  After the extents
\* are adjusted no record's extent ends above its anchor y plus the fixed
\* span, for any spacing of the anchors of a column.
C34_OnlyTightens ==
    (calc.op = "agg" /\ calc.pc # "anchors") =>
        \A k \in 1..Len(calc.cards) :
            calc.cards[k].y_end <= calc.cards[k].y_start + FixedSpan

\* C34 amended: step 3 moves every extent's end to the next anchor.  A record
\* followed by another record of its (page, column) ends exactly at that
\* record's y, be it nearer or farther than the fixed span; the last record of
\* a column keeps anchor y plus the fixed span.
C34_EndsAtNextAnchor ==
    (calc.op = "agg" /\ calc.pc # "anchors") =>
        \A k \in 1..Len(calc.cards) :
            LET later == {j \in (k + 1)..Len(calc.cards) :
                            /\ calc.cards[j].page = calc.cards[k].page
                            /\ calc.cards[j].col = calc.cards[k].col}
            IN  calc.cards[k].y_end =
                    IF later = {} THEN calc.cards[k].y_start + FixedSpan
                    ELSE calc.cards[Lowest(later)].y_start

\* Three anchors in one column at y = 0.10, 0.10 and 0.30: the first extent
\* is shortened to nothing, the second reaches 0.30 and is twice the fixed
\* span, the third keeps the fixed span.
C34_Witness ==
    /\ calc.op = "agg" /\ calc.pc = "done" /\ Len(calc.cards) = 3
    /\ calc.cards[1].col = 0 /\ calc.cards[2].col = 0 /\ calc.cards[3].col = 0
    /\ calc.cards[1].y_start = 10 /\ calc.cards[1].y_end = 10
    /\ calc.cards[2].y_start = 10 /\ calc.cards[2].y_end = 30
    /\ calc.cards[3].y_start = 30 /\ calc.cards[3].y_end = 40

\* C35: the fallback of the aggregator.  A non-anchor fragment whose y lies
\* in no extent of its (page, column) is assigned to a record of that
\* (page, column) whose extent start is nearest to y, with one, several or no
\* record start within the 0.12 tolerance.
C35_NearestStart ==
    (calc.op = "agg" /\ calc.pc # "anchors") =>
        \A q \in 1..Len(calc.best) :
            LET e    == calc.entities[q]
                same == {k \in 1..Len(calc.cards) :
                            /\ calc.cards[k].page = e.page
                            /\ calc.cards[k].col = Column(e.x)}
                hits == {k \in same : /\ calc.cards[k].y_start <= e.y
                                      /\ e.y < calc.cards[k].y_end}
            IN  (e.type # "voterid" /\ same # {} /\ hits = {}) =>
                   /\ calc.best[q] \in same
                   /\ \A j \in same :
                        Dist(calc.cards[calc.best[q]].y_start, e.y)
                           <= Dist(calc.cards[j].y_start, e.y)

\* C36: progress is persisted after a bounded number of completed units.
\* During Phase 2 the number of OCR results recorded since the last
\* checkpoint save never exceeds the save interval, also when retrievals
\* raise.
C36_BoundedUnsaved ==
    calc.op = "progress" => calc.unsaved <= SaveEvery

\* C37: every run terminates when each submitted worker task eventually
\* completes.  A started run ends; unless a stop is requested it ends
\* completed, with the workbook saved and the checkpoint deleted; a stop
\* requested while futures are outstanding in Phase 1, 2 or 3 leads to the
\* stopped state with a saved checkpoint.
C37_Terminates ==
    /\ (run.pc # "idle") ~>
          /\ run.pc = "idle"
          /\ \/ run.outcome = "completed" /\ excel.saved /\ file = NoFile
             \/ run.outcome = "stopped" /\ stop_requested
    /\ (stop_requested /\ run.pc \in {"p1loop", "p2loop", "p3loop"}
                       /\ run.futures # {}) ~>
          (run.pc = "idle" /\ run.outcome = "stopped" /\ file.kind = "json")

\* A GUI run stopped while OCR futures were outstanding: it ended in Phase 2
\* as stopped, with the checkpoint saved at phase 1.
C37_Witness ==
    /\ variant = "gui" /\ run.pc = "idle" /\ run.outcome = "stopped"
    /\ stop_at = 2 /\ run.stopped_in = 2
    /\ file.kind = "json" /\ file.data.phase = 1

\* The progress a checkpoint file holds: the keys of extracted_pdfs, the
\* keys of ocr_results and the members of enhanced_ocr_done.
Progress(f) ==
    IF f.kind = "json"
    THEN [pdfs |-> Keys(f.data.extracted_pdfs),
          ocr  |-> DOMAIN f.data.ocr_results,
          enh  |-> Range(f.data.enhanced_ocr_done)]
    ELSE [pdfs |-> {}, ocr |-> {}, enh |-> {}]

\* The No answer of the resume dialog: the run starts afresh.
FreshStartChosen ==
    variant = "gui" /\ run.pc = "idle" /\ run'.pc # "idle" /\ ~run'.resume_mode

\* C38: persisted progress only grows.  Across saves, stops and resumes on
\* one checkpoint, with no fresh start chosen, the key sets of extracted_pdfs
\* and ocr_results and the enhanced_ocr_done set of the checkpoint file lose
\* no element until the checkpoint is deleted after the export.
C38_ProgressOnlyGrows ==
    [][(file.kind = "json" /\ ~FreshStartChosen) =>
          \/ /\ file'.kind = "json"
             /\ Progress(file).pdfs \subseteq Progress(file').pdfs
             /\ Progress(file).ocr \subseteq Progress(file').ocr
             /\ Progress(file).enh \subseteq Progress(file').enh
          \/ file' = NoFile /\ excel'.saved]_vars

\* A run resumed from a checkpoint was stopped again in Phase 3: the
\* checkpoint it leaves holds extracted PDFs, OCR results and repaired
\* indices.
C38_Witness ==
    /\ run.resume_mode /\ run.pc = "idle" /\ run.outcome = "stopped"
    /\ file.kind = "json"
    /\ Cardinality(Progress(file).pdfs) >= 1
    /\ Cardinality(Progress(file).ocr) >= 2
    /\ Cardinality(Progress(file).enh) >= 1
    /\ run.stopped_in = 3

\* C39: in parse_voter_card the name field is never taken from a relation
\* line.  The pass over a line that matches the father, husband, mother or
\* other relation rule of the variant leaves 'name' as it was, for any order
\* of the lines and also when the card has no name line of its own.
C39_NameNotFromRelationLine ==
    [][(/\ calc.op = "parse" /\ calc.pc = "lines" /\ calc.i <= Len(calc.lines)
        /\ \E k \in 1..Len(RelationRules(calc.variant)) :
              RuleMatches(RelationRules(calc.variant)[k], calc.lines[calc.i]))
          => calc'.data.name = calc.data.name]_vars

====
